---- MODULE Spec2Model ----
(***************************************************************************)
(* Document / embedding-chunk pipeline of the repository: the chunk        *)
(* writers (DocumentGraphStore, DocumentContentEmbedding), the readers     *)
(* (DocumentRetriever, ContentRetriever, EmbeddingVerifier) and the        *)
(* document deletion (DocumentCleaner), over a graph of User, Document     *)
(* and DocumentEmbedding nodes.                                            *)
(***************************************************************************)
EXTENDS Integers, Sequences, FiniteSets, TLC

VARIABLES
    embedding,   \* chunk encoder: the full embedding vector handed to a writer
    chunked,     \* chunk encoder: the chunk records the writer produced
    writer,      \* chunk encoder: which writer produced `chunked`
    users,       \* graph: User nodes, node key -> properties
    companies,   \* graph: Company nodes (by name)
    docs,        \* graph: Document nodes (records with their uuid)
    chunks,      \* graph: DocumentEmbedding nodes (records with their uuid)
    worksFor,    \* graph: User -[:WORKS_FOR]-> Company relationships
    rels,        \* graph: User -> Document relationships
    embRels,     \* graph: Document -> DocumentEmbedding relationships
    nextId,      \* how many Document uuids apoc.create.uuid() has handed out
    result,      \* what the operation in progress did and returns to its caller
    indexes,     \* database: the indexes SHOW INDEXES lists
    setups,      \* the setup_vector_index calls in progress, one per client
    integrations, \* graph: u.integrations of the User nodes, by user_id
    updates,     \* the update_integration_status calls in progress, one per client
    connected,   \* per user, the last of OAuth callback / disconnect that succeeded
    drivers,     \* the Neo4j driver of each client object: "open" or "closed"
    closedUse,   \* the operations run on a driver after its close()
    flow,        \* the run of the document flow: its position and what it saw
    chat         \* the group chat: its messages, the speaker, whether it runs

vars == <<embedding, chunked, writer, users, companies, worksFor, docs, chunks, rels,
          embRels, nextId, result, indexes, setups, integrations, updates, connected,
          drivers, closedUse, flow, chat>>

graphVars == <<users, companies, worksFor, docs, chunks, rels, embRels, nextId, result>>
nodeVars == <<users, companies, worksFor, docs, chunks, rels, embRels, nextId>>
encoderVars == <<embedding, chunked, writer>>
indexVars == <<indexes, setups>>
authVars == <<integrations, updates, connected>>
driverVars == <<drivers, closedUse, flow>>
serviceVars == <<indexVars, authVars, driverVars, chat>>
\* what a write to the graph made through an open driver leaves alone
otherVars == <<indexVars, authVars, chat>>

NULL == "NULL"

----------------------------------------------------------------------------
(* Program constants *)

\* chunk_size = 500 of _store_embedding_chunks, `500 as chunk_size` of
\* _store_content_embedding, chunk_size = 500 of the retrievers
CHUNK_SIZE == 500

\* self.embed_dim = 1536, the OpenAI embedding dimension
EMBED_DIM == 1536

(* Bounds *)
MaxVecLen == 1536

Min(a, b) == IF a < b THEN a ELSE b

----------------------------------------------------------------------------
(* Chunk encoder *)

\* Python range(start, stop, step) as a sequence (stop exclusive)
PyRange(start, stop, step) ==
    IF stop <= start THEN <<>>
    ELSE [k \in 1..(((stop - start - 1) \div step) + 1) |-> start + (k - 1) * step]

\* Python s[i:j] for 0 <= i <= j
PySlice(s, i, j) == SubSeq(s, i + 1, Min(j, Len(s)))

\* Cypher range(start, end, step) as a sequence (end inclusive)
CyRange(start, end, step) ==
    IF end < start THEN <<>>
    ELSE [k \in 1..(((end - start) \div step) + 1) |-> start + (k - 1) * step]

\* Cypher list[i..] and list[i..j]
CySliceFrom(s, i) == SubSeq(s, i + 1, Len(s))
CySlice(s, i, j) == SubSeq(s, i + 1, Min(j, Len(s)))

\* ceil(toFloat(total_size) / chunk_size)
CyCeilDiv(n, d) == (n + d - 1) \div d

\* DocumentGraphStore._store_embedding_chunks: the Python list comprehension
\* and the chunk properties the query sets from it
PyChunks(emb, chunk_size) ==
    LET starts == PyRange(0, Len(emb), chunk_size)
        lists == [k \in 1..Len(starts) |-> PySlice(emb, starts[k], starts[k] + chunk_size)]
    IN  [k \in 1..Len(lists) |->
            [chunk_index |-> k - 1,
             total_chunks |-> Len(lists),
             embedding_chunk |-> lists[k]]]

\* _store_content_embedding with UNWIND range(0, size(full_embedding), chunk_size)
CyChunks_RangeToSize(emb) ==
    LET chunk_size == CHUNK_SIZE
        total_size == Len(emb)
        starts == CyRange(0, total_size, chunk_size)
    IN  [k \in 1..Len(starts) |->
            [chunk_index |-> starts[k] \div chunk_size,
             total_chunks |-> CyCeilDiv(total_size, chunk_size),
             embedding_chunk |->
                IF starts[k] + CHUNK_SIZE > total_size
                THEN CySliceFrom(emb, starts[k])
                ELSE CySlice(emb, starts[k], starts[k] + CHUNK_SIZE)]]

\* DocumentContentEmbedding._store_content_embedding: the UNWIND over
\* range(0, size-1, chunk_size) and the CASE that cuts each chunk
CyChunks(emb) ==
    LET chunk_size == CHUNK_SIZE
        total_size == Len(emb)
        starts == CyRange(0, total_size - 1, chunk_size)
    IN  [k \in 1..Len(starts) |->
            [chunk_index |-> starts[k] \div chunk_size,
             total_chunks |-> CyCeilDiv(total_size, chunk_size),
             embedding_chunk |->
                IF starts[k] + CHUNK_SIZE > total_size
                THEN CySliceFrom(emb, starts[k])
                ELSE CySlice(emb, starts[k], starts[k] + CHUNK_SIZE)]]

\* a vector of length L with pairwise distinct components
Vec(L) == [i \in 1..L |-> i]

InitEncoder ==
    /\ embedding \in {Vec(L) : L \in 0..MaxVecLen}
    /\ chunked = <<>>
    /\ writer = "none"

\* no operation in progress: the last caller has its return value
NoResult == [op |-> "none"]

InitGraphIdle ==
    /\ users = <<>>
    /\ companies = {}
    /\ worksFor = {}
    /\ docs = {}
    /\ chunks = {}
    /\ rels = {}
    /\ embRels = {}
    /\ nextId = 0
    /\ result = NoResult

\* the clients (processes, sessions) that run an operation of several steps
Clients == {"c1", "c2"}
NoCall == [pc |-> "idle"]

\* nothing outside the document graph is in use: no index, no integration
\* call, no client object, no group chat
InitIndexIdle ==
    /\ indexes = {}
    /\ setups = [c \in Clients |-> NoCall]

InitAuthIdle ==
    /\ integrations = <<>>
    /\ updates = [c \in Clients |-> NoCall]
    /\ connected = <<>>

InitDriversIdle ==
    /\ drivers = <<>>
    /\ closedUse = {}
    /\ flow = [pc |-> "none"]

InitChatIdle == chat = [status |-> "none"]

InitServices == InitIndexIdle /\ InitAuthIdle /\ InitDriversIdle /\ InitChatIdle

EncodeSummary ==
    /\ writer = "none"
    /\ chunked' = PyChunks(embedding, CHUNK_SIZE)
    /\ writer' = "_store_embedding_chunks"
    /\ UNCHANGED <<embedding, graphVars, serviceVars>>

EncodeContent ==
    /\ writer = "none"
    /\ chunked' = CyChunks(embedding)
    /\ writer' = "_store_content_embedding"
    /\ UNCHANGED <<embedding, graphVars, serviceVars>>

InitChunk == InitEncoder /\ InitGraphIdle /\ InitServices
NextChunk == EncodeSummary \/ EncodeContent
SpecChunk == InitChunk /\ [][NextChunk]_vars

----------------------------------------------------------------------------
(* The graph: inputs *)

\* Document nodes ever created; content chunk sets held by the graph
MaxDocs == 2
MaxContentSets == 2

UserIds == {"u1", "u2"}

\* user_data of UserStore.create_or_update_user; its integrations carry the
\* google_drive token get_google_credentials reads
Registrations ==
    {[user_id |-> "u1", email |-> "e1", company |-> "acme"]}

\* The texts the embedding model and the similarity function see
DocTexts == {"T1", "T2", "T3"}
QueryTexts == {"Q", "Q2"}
TextCode(t) ==
    CASE t = "T1" -> 1 [] t = "T2" -> 2 [] t = "T3" -> 3 [] t = "Q" -> 4 [] t = "Q2" -> 5

\* Drive files as summarize_all_files and _get_file_metadata report them
File1 == [id |-> "f1", summary |-> "T1", owner_email |-> "e1",
          last_modifier_email |-> "e2", modified_time |-> 2]
File2 == [id |-> "f2", summary |-> "T2", owner_email |-> "e1",
          last_modifier_email |-> "e1", modified_time |-> 1]
File3 == [id |-> "f3", summary |-> "T3", owner_email |-> "e2",
          last_modifier_email |-> "e1", modified_time |-> 3]
Files == {File1, File2, File3}
Drive(user_id) == IF user_id = "u1" THEN <<File1, File2>> ELSE <<File3>>

\* self.embed_model.get_text_embedding(text): EMBED_DIM components, component
\* i of the embedding of text t written as the number TextCode(t), i
Embed(t) == [i \in 1..EMBED_DIM |-> TextCode(t) * (EMBED_DIM + 1) + i]
TextOf(vec) == vec[1] \div (EMBED_DIM + 1)

\* the embed_model a reader constructs for itself (OpenAIEmbedding()), and the
\* number of components its embeddings have: the writers' EMBED_DIM, or another
\* when the model is not the one the chunks were written with
QueryDims == {EMBED_DIM, 300}
QueryEmbed(t, dim) == [i \in 1..dim |-> TextCode(t) * (EMBED_DIM + 1) + i]
OffsetOf(vec) == (vec[1] % (EMBED_DIM + 1)) - 1

----------------------------------------------------------------------------
(* The graph: nodes and relationships *)

UserKey(by, v) == [by |-> by, v |-> v]
NoUser == UserKey("none", "none")

OWNS == "OWNS"
CREATED == "CREATED"
LAST_MODIFIED == "LAST_MODIFIED"
HAS_SUMMARY_EMBEDDING == "HAS_SUMMARY_EMBEDDING"
HAS_CONTENT_EMBEDDING == "HAS_CONTENT_EMBEDDING"
HAS_EMBEDDING == "HAS_EMBEDDING"

\* a relationship from a User to a Document; n numbers the relationships of
\* one type between the same two nodes (CREATE adds one per row)
RelN(type, from, to, n) == [type |-> type, from |-> from, to |-> to, n |-> n]
Rel(type, from, to) == RelN(type, from, to, 1)

\* MATCH (u:User {prop: v})
MatchUsers(us, prop, v) == {k \in DOMAIN us : us[k][prop] = v}

\* MERGE (u:User {prop: v}): the nodes bound, and the node set afterwards
MergeUser(us, prop, v) ==
    IF MatchUsers(us, prop, v) # {} THEN us
    ELSE us @@ (UserKey(prop, v) :>
                  [user_id |-> IF prop = "user_id" THEN v ELSE NULL,
                   email |-> IF prop = "email" THEN v ELSE NULL,
                   google |-> FALSE])

\* MATCH (u:User {user_id: $user_id})-[:OWNS]->(d:Document)
OwnedDocs(user_id) ==
    {d \in docs : \E k \in MatchUsers(users, "user_id", user_id) :
                     Rel(OWNS, k, d.id) \in rels}

\* (d)-[:type]->(e:DocumentEmbedding)
ChunksOf(doc_id, type) ==
    {e \in chunks : [type |-> type, from |-> doc_id, to |-> e.id] \in embRels}

\* How many chunk writes a Document has received under relationship `type`
ChunkSets(doc_id, type) ==
    Cardinality({e.id.set : e \in ChunksOf(doc_id, type)})

\* apoc.create.uuid() for a DocumentEmbedding node: unique among the nodes,
\* written as (document, relationship, number of the chunk write, position)
ChunkUuid(doc_id, type, set, k) ==
    [doc |-> doc_id, type |-> type, set |-> set, k |-> k]

\* The DocumentEmbedding nodes one chunk write creates for one Document
NewChunkNodes(chunkSeq, doc_id, type, set) ==
    {[id |-> ChunkUuid(doc_id, type, set, k),
      chunk_index |-> chunkSeq[k].chunk_index,
      total_chunks |-> chunkSeq[k].total_chunks,
      embedding_chunk |-> chunkSeq[k].embedding_chunk] : k \in 1..Len(chunkSeq)}

----------------------------------------------------------------------------
(* UserStore.create_or_update_user *)

\* a Python dict, and the JSON object stored in u.integrations
EmptyDict == <<>>

\* d[key] = value
SetKey(d, key, value) ==
    [k \in DOMAIN d \cup {key} |-> IF k = key THEN value ELSE d[k]]

\* d without the keys of S
DropKeys(d, S) == [k \in DOMAIN d \ S |-> d[k]]

\* the u.integrations property goes with the User node
DropUserNodes(d, K) == DropKeys(d, {users[k].user_id : k \in K})


CreateOrUpdateUser(reg) ==
    LET us1 == MergeUser(users, "user_id", reg.user_id)
        U == MatchUsers(us1, "user_id", reg.user_id)
    IN  /\ users' = [k \in DOMAIN us1 |->
                        IF k \in U
                        THEN [us1[k] EXCEPT !.email = reg.email, !.google = TRUE]
                        ELSE us1[k]]
        /\ companies' = companies \cup {reg.company}
        /\ worksFor' = worksFor \cup {[user |-> k, company |-> reg.company] : k \in U}
        /\ integrations' = SetKey(integrations, reg.user_id, EmptyDict)
        /\ connected' = DropKeys(connected, {reg.user_id})
        /\ result' = [op |-> "create_or_update_user", user_id |-> reg.user_id]
        /\ UNCHANGED <<docs, chunks, rels, embRels, nextId, encoderVars, indexVars,
                       updates, driverVars, chat>>

----------------------------------------------------------------------------
(* DocumentGraphStore: store_user_documents and _create_document_node *)

\* _store_embedding_chunks(tx, doc_id, embedding): the nodes and the
\* HAS_SUMMARY_EMBEDDING relationships its query creates
StoreEmbeddingChunks(doc_id, emb) ==
    LET nodes == NewChunkNodes(PyChunks(emb, CHUNK_SIZE), doc_id,
                               HAS_SUMMARY_EMBEDDING, 0)
    IN  [nodes |-> nodes,
         rels |-> {[type |-> HAS_SUMMARY_EMBEDDING, from |-> doc_id, to |-> e.id] :
                     e \in nodes}]

\* the part of the graph _create_document_node reads and writes
Graph ==
    [users |-> users, docs |-> docs, rels |-> rels, chunks |-> chunks,
     embRels |-> embRels, nextId |-> nextId]

\* The transaction of _create_document_node for one drive file, from graph g;
\* embedOk is whether get_text_embedding returned (its exception is caught
\* and logged, and the Document stays without chunks). MERGE (o) yields one
\* row per User node with the owner's email, and the clauses after it run
\* once per row: one CREATED per such node, and for every node with the
\* modifier's email one LAST_MODIFIED per row
CreateDocumentNode(g, user_id, f, embedOk) ==
    LET us1 == MergeUser(g.users, "user_id", user_id)
        U == MatchUsers(us1, "user_id", user_id)
        us2 == MergeUser(us1, "email", f.owner_email)
        O == MatchUsers(us2, "email", f.owner_email)
        us3 == MergeUser(us2, "email", f.last_modifier_email)
        M == MatchUsers(us3, "email", f.last_modifier_email)
        d == [id |-> g.nextId,
              origin_source_id |-> f.id,
              summary |-> f.summary,
              owner_email |-> f.owner_email,
              last_modifier_email |-> f.last_modifier_email,
              modified_time |-> f.modified_time,
              content |-> NULL]
        stored == IF f.summary # "" /\ embedOk
                  THEN StoreEmbeddingChunks(d.id, Embed(f.summary))
                  ELSE [nodes |-> {}, rels |-> {}]
    IN  [users |-> us3,
         docs |-> g.docs \cup {d},
         rels |-> g.rels \cup {Rel(OWNS, k, d.id) : k \in U}
                         \cup {Rel(CREATED, k, d.id) : k \in O}
                         \cup {RelN(LAST_MODIFIED, k, d.id, n) :
                                  k \in M, n \in 1..Cardinality(O)},
         chunks |-> g.chunks \cup stored.nodes,
         embRels |-> g.embRels \cup stored.rels,
         nextId |-> g.nextId + 1]

\* the loop of store_user_documents: one execute_write per summarized file.
\* txOks says whether the execute_write of each file committed; when one
\* raises, the exception leaves the loop (the only try is around it), the
\* Documents committed so far stay and False is returned
RECURSIVE StoreLoop(_, _, _, _, _)
StoreLoop(g, user_id, files, embedOks, txOks) ==
    IF files = <<>> THEN [graph |-> g, ret |-> TRUE]
    ELSE IF ~Head(txOks) THEN [graph |-> g, ret |-> FALSE]
    ELSE StoreLoop(CreateDocumentNode(g, user_id, Head(files), Head(embedOks)),
                   user_id, Tail(files), Tail(embedOks), Tail(txOks))

\* store_user_documents(user_id, summarizer); driveOk is whether
\* summarize_all_files listed the drive (it returns {} when it could not, and
\* the loop has nothing to store), embedOks[i] whether the embedding call of
\* the i-th file returned, txOks[i] whether its execute_write committed
StoreUserDocuments(user_id, driveOk, embedOks, txOks) ==
    LET files == IF driveOk THEN Drive(user_id) ELSE <<>>
        stored == StoreLoop(Graph, user_id, files, embedOks, txOks)
        g == stored.graph
    IN  /\ nextId + Len(files) <= MaxDocs
        /\ users' = g.users
        /\ docs' = g.docs
        /\ rels' = g.rels
        /\ chunks' = g.chunks
        /\ embRels' = g.embRels
        /\ nextId' = g.nextId
        /\ result' = [op |-> "store_user_documents", user_id |-> user_id,
                      ret |-> stored.ret, created |-> g.docs \ docs,
                      files |-> files, txOks |-> txOks]
        /\ UNCHANGED <<companies, worksFor, encoderVars, otherVars>>

----------------------------------------------------------------------------
(* DocumentContentEmbedding: create_content_embedding *)

\* _store_content_embedding(tx, doc_id, content, content_embedding): every
\* Document with that origin_source_id gets the content and a new set of
\* HAS_CONTENT_EMBEDDING chunk nodes
StoreContentEmbedding(matched, emb) ==
    LET nodes(d) == NewChunkNodes(CyChunks(emb), d.id, HAS_CONTENT_EMBEDDING,
                                  ChunkSets(d.id, HAS_CONTENT_EMBEDDING))
    IN  [nodes |-> UNION {nodes(d) : d \in matched},
         rels |-> UNION {{[type |-> HAS_CONTENT_EMBEDDING, from |-> d.id, to |-> e.id] :
                            e \in nodes(d)} : d \in matched},
         sets |-> {[doc |-> d.id,
                    old |-> {e.id : e \in ChunksOf(d.id, HAS_CONTENT_EMBEDDING)},
                    new |-> {e.id : e \in nodes(d)}] : d \in matched}]

\* How many content chunk sets the graph holds
ContentSets ==
    Cardinality({<<r.from, r.to.set>> : r \in {x \in embRels : x.type = HAS_CONTENT_EMBEDDING}})

HasGoogleCredentials(user_id) ==
    \E k \in MatchUsers(users, "user_id", user_id) : users[k].google

ContentFailed ==
    /\ result' = [op |-> "create_content_embedding", ret |-> FALSE,
                  type |-> HAS_CONTENT_EMBEDDING, sets |-> {}]
    /\ UNCHANGED <<users, companies, worksFor, docs, chunks, rels, embRels, nextId,
                   encoderVars, serviceVars>>

\* content is the text _extract_google_doc_content returned ("" on failure)
CreateContentEmbedding(user_id, doc_id, doc_type, content) ==
    IF \/ doc_type \notin {"document", "pdf"}
       \/ ~HasGoogleCredentials(user_id)
       \/ (IF doc_type = "document" THEN content ELSE "") = ""
    THEN ContentFailed
    ELSE LET matched == {d \in docs : d.origin_source_id = doc_id}
             stored == StoreContentEmbedding(matched, Embed(content))
         IN  /\ ContentSets + Cardinality(matched) <= MaxContentSets
             /\ docs' = (docs \ matched)
                          \cup {[d EXCEPT !.content = content] : d \in matched}
             /\ chunks' = chunks \cup stored.nodes
             /\ embRels' = embRels \cup stored.rels
             /\ result' = [op |-> "create_content_embedding", ret |-> TRUE,
                           type |-> HAS_CONTENT_EMBEDDING, sets |-> stored.sets]
             /\ UNCHANGED <<users, companies, worksFor, rels, nextId, encoderVars, serviceVars>>

----------------------------------------------------------------------------
(* DocumentCleaner: delete_documents and delete_all_documents *)

AuthorTypes == {CREATED, LAST_MODIFIED}

\* OPTIONAL MATCH (d)<-[:type]-(x:User) [WHERE x.user_id IS NULL]: the users
\* bound for document d, NoUser standing for the null of an empty match
Authors(d, type, placeholdersOnly) ==
    LET A == {k \in DOMAIN users :
                /\ Rel(type, k, d.id) \in rels
                /\ (placeholdersOnly => users[k].user_id = NULL)}
    IN  IF A = {} THEN {NoUser} ELSE A

\* WITH DISTINCT creator, modifier
AuthorRows(D, placeholdersOnly) ==
    UNION {Authors(d, CREATED, placeholdersOnly)
             \X Authors(d, LAST_MODIFIED, placeholdersOnly) : d \in D}

\* x.user_id IS NULL AND NOT EXISTS((x)-[:CREATED]->(:Document))
\*                   AND NOT EXISTS((x)-[:LAST_MODIFIED]->(:Document))
IsOrphan(k, relsAfter) ==
    /\ users[k].user_id = NULL
    /\ ~\E r \in relsAfter : r.from = k /\ r.type \in AuthorTypes

\* The two clean-up stages that follow DELETE ..., d: the creators deleted,
\* then, only on the rows whose creator was deleted, the modifiers deleted.
\* deletedRead: a row reads modifier.user_id of a node the first stage deleted.
CleanupOrphans(rows, relsAfter) ==
    LET rows0 == {row \in rows : row[1] # NoUser \/ row[2] # NoUser}
        rows1 == {row \in rows0 : row[1] # NoUser /\ IsOrphan(row[1], relsAfter)}
        creators == {row[1] : row \in rows1}
        rows2 == {row \in rows1 : row[2] # NoUser /\ IsOrphan(row[2], relsAfter)}
    IN  [deleted |-> creators \cup {row[2] : row \in rows2},
         deletedRead |-> \E row \in rows1 : row[2] \in creators]

\* CommitBlocked for a server that overlooks the embedding relationships of
\* the deleted documents
CommitBlocked_IgnoringChunks(D, K, relsAfter) ==
    \/ \E r \in relsAfter : r.to \in {d.id : d \in D} \/ r.from \in K
    \/ \E w \in worksFor : w.user \in K

\* Neo4j refuses to commit the deletion of a node that still has relationships
CommitBlocked(D, K, relsAfter) ==
    \/ \E r \in relsAfter : r.to \in {d.id : d \in D} \/ r.from \in K
    \/ \E r \in embRels : r.from \in {d.id : d \in D}
    \/ \E w \in worksFor : w.user \in K

\* a deletion that changes nothing: no documents, the operator declined, or
\* the transaction failed and was rolled back
DeleteNothing(op, user_id, status) ==
    /\ result' = [op |-> op, user_id |-> user_id, status |-> status,
                  deletedDocs |-> {}, deletedUsers |-> {}, rows |-> {}]
    /\ UNCHANGED <<users, companies, worksFor, docs, chunks, rels, embRels, nextId,
                   encoderVars, otherVars>>

\* DeleteTransaction with DETACH DELETE creator, modifier and no orphan
\* filter: every author of a deleted document goes, with its relationships
DeleteTransaction_DetachAuthors(op, user_id, D, delRels, rows, onDeletedRead) ==
    LET K == UNION {{row[1], row[2]} : row \in rows} \ {NoUser}
    IN  /\ docs' = docs \ D
        /\ rels' = {r \in rels \ delRels : r.from \notin K}
        /\ users' = [k \in (DOMAIN users) \ K |-> users[k]]
        /\ worksFor' = {w \in worksFor : w.user \notin K}
        /\ result' = [op |-> op, user_id |-> user_id, status |-> "success",
                      deletedDocs |-> D, deletedUsers |-> K, rows |-> rows]
        /\ UNCHANGED <<companies, chunks, embRels, nextId, encoderVars, otherVars>>

\* One delete query: documents D and relationships delRels are deleted, the
\* orphans among `rows` are cleaned up, and the transaction commits or fails.
\* onDeletedRead is what reading a property of a node deleted in the same
\* transaction does in the server at hand: "error" or "null".
DeleteTransaction(op, user_id, D, delRels, rows, onDeletedRead) ==
    LET relsAfter == rels \ delRels
        cleanup == CleanupOrphans(rows, relsAfter)
        K == cleanup.deleted
    IN  IF \/ CommitBlocked(D, K, relsAfter)
           \/ (cleanup.deletedRead /\ onDeletedRead = "error")
        THEN DeleteNothing(op, user_id, "error")
        ELSE /\ docs' = docs \ D
             /\ rels' = relsAfter
             /\ users' = [k \in (DOMAIN users) \ K |-> users[k]]
             /\ result' = [op |-> op, user_id |-> user_id, status |-> "success",
                           deletedDocs |-> D, deletedUsers |-> K, rows |-> rows]
             /\ UNCHANGED <<companies, worksFor, chunks, embRels, nextId, encoderVars,
                            otherVars>>

\* DELETE cr, mr, d of _delete_user_documents
DeleteUserDocumentsRels(D) ==
    {r \in rels : /\ r.to \in {d.id : d \in D}
                  /\ r.type \in AuthorTypes
                  /\ users[r.from].user_id = NULL}

\* delete_documents(user_id, confirm); answer is what the operator typed
DeleteDocuments(user_id, answer, onDeletedRead) ==
    LET D == OwnedDocs(user_id)
    IN  IF D = {} THEN DeleteNothing("delete_documents", user_id, "info")
        ELSE IF answer # "yes"
        THEN DeleteNothing("delete_documents", user_id, "cancelled")
        ELSE DeleteTransaction("delete_documents", user_id, D,
                               DeleteUserDocumentsRels(D),
                               AuthorRows(D, TRUE), onDeletedRead)

\* DELETE r, cr, mr, d of delete_all_documents
DeleteAllDocumentsRels(D) ==
    {r \in rels : /\ r.to \in {d.id : d \in D}
                  /\ r.type \in {OWNS} \cup AuthorTypes}

\* delete_all_documents(confirm)
DeleteAllDocuments(answer, onDeletedRead) ==
    IF docs = {} THEN DeleteNothing("delete_all_documents", NULL, "info")
    ELSE IF answer # "yes"
    THEN DeleteNothing("delete_all_documents", NULL, "cancelled")
    ELSE DeleteTransaction("delete_all_documents", NULL, docs,
                           DeleteAllDocumentsRels(docs),
                           AuthorRows(docs, FALSE), onDeletedRead)

----------------------------------------------------------------------------
(* Similarity queries *)

Limits == {1, 5}
Thresholds == {30, 70}

\* gds.similarity.cosine of two equally long vectors, in hundredths: slices of
\* the same position compare as their texts do, slices of different positions
\* are unrelated
TextSimilarity(a, b) ==
    LET lo == Min(a, b)
        hi == IF a < b THEN b ELSE a
    IN  CASE lo = hi -> 100
          [] lo = 1 /\ hi = 2 -> 75
          [] lo = 1 /\ hi = 3 -> 70
          [] lo = 2 /\ hi = 3 -> 30
          [] lo = 1 /\ hi = 4 -> 92
          [] lo = 2 /\ hi = 4 -> 45
          [] lo = 3 /\ hi = 4 -> 70
          [] lo = 1 /\ hi = 5 -> 80
          [] lo = 2 /\ hi = 5 -> 80
          [] lo = 3 /\ hi = 5 -> 20
          [] lo = 4 /\ hi = 5 -> 50

Cosine(a, b) ==
    IF OffsetOf(a) = OffsetOf(b) THEN TextSimilarity(TextOf(a), TextOf(b)) ELSE 10

\* a gds.similarity.cosine that accepts vectors of different length
Comparable_AnyLength(a, b) == Len(a) > 0 /\ Len(b) > 0

\* gds.similarity.cosine raises on vectors of different length
Comparable(a, b) == Len(a) = Len(b) /\ Len(a) > 0

RECURSIVE SumOver(_)
SumOver(S) ==
    IF S = {} THEN 0
    ELSE LET x == CHOOSE y \in S : TRUE IN x.score + SumOver(S \ {x})

MaxOver(S) == CHOOSE m \in {x.score : x \in S} : \A x \in S : x.score <= m

\* avg(chunk_score) and max(chunk_score) over the rows of one document, a
\* score being num/den hundredths
Avg(rows) == [num |-> SumOver(rows), den |-> Cardinality(rows)]
Max(rows) == [num |-> MaxOver(rows), den |-> 1]
Aggregate(agg, rows) == IF agg = "avg" THEN Avg(rows) ELSE Max(rows)

\* WHERE similarity_score >= $threshold
AboveThreshold_OrEqual(score, threshold) == score.num >= threshold * score.den

\* WHERE similarity_score > $threshold
AboveThreshold(score, threshold) == score.num > threshold * score.den

ScoreLeq(s, t) == s.num * t.den <= t.num * s.den

\* LIMIT $limit without the ORDER BY: any $limit of the records, in any order
OrderedLimited_NoOrderBy(S, limit) ==
    LET m == Min(limit, Cardinality(S))
    IN  {q \in [1..m -> S] : \A i, j \in 1..m : i < j => q[i] # q[j]}

\* ORDER BY similarity_score DESC LIMIT $limit: every list the server may
\* return for the records in S
OrderedLimited(S, limit) ==
    LET m == Min(limit, Cardinality(S))
    IN  {q \in [1..m -> S] :
           /\ \A i, j \in 1..m : i < j =>
                 /\ q[i] # q[j]
                 /\ ScoreLeq(q[j].similarity_score, q[i].similarity_score)
           /\ \A x \in S : (\A i \in 1..m : q[i] # x) =>
                 \A i \in 1..m : ScoreLeq(x.similarity_score, q[i].similarity_score)}

\* collect({...})[0..$limit]: any $limit of the records, in any order
Collected(S, limit) ==
    LET m == Min(limit, Cardinality(S))
    IN  {q \in [1..m -> S] : \A i, j \in 1..m : i < j => q[i] # q[j]}

\* the $query_chunk / $topic_embedding / $query_embedding parameter, where a
\* row names the vector it compares a chunk with (a chunk node otherwise)
QueryVector == ChunkUuid(-1, "parameter", 0, 0)

\* One row of a similarity query: document doc, stored chunk e, and the
\* vector q (of node or query qid) it is compared with
Row(d, e, q, qid) == [doc |-> d.id, e |-> e, q |-> q, qid |-> qid]

\* the query fails when gds.similarity.cosine is called on a row it rejects
QueryFails(rows) == \E r \in rows : ~Comparable(r.e.embedding_chunk, r.q)

RowScores(rows, doc_id) ==
    {[e |-> r.e.id, qid |-> r.qid, score |-> Cosine(r.e.embedding_chunk, r.q)] :
        r \in {x \in rows : x.doc = doc_id}}

\* WITH d, agg(chunk_score) AS similarity_score WHERE similarity_score > threshold
ScoredDocuments(rows, agg, threshold) ==
    {rec \in {[id |-> doc_id,
               similarity_score |-> Aggregate(agg, RowScores(rows, doc_id))] :
                 doc_id \in {r.doc : r \in rows}} :
        AboveThreshold(rec.similarity_score, threshold)}

\* what a reader returns: nothing else changes
Respond(r) ==
    /\ result' = r
    /\ UNCHANGED <<users, companies, worksFor, docs, chunks, rels, embRels, nextId,
                   encoderVars, serviceVars>>

\* the calls of gds.similarity.cosine a query made: which chunk of which
\* document, against which vector, and the two lengths
Compared(rows) ==
    {[doc |-> r.doc, e |-> r.e.id, chunk_index |-> r.e.chunk_index,
      elen |-> Len(r.e.embedding_chunk), qid |-> r.qid, qlen |-> Len(r.q)] : r \in rows}

\* a call of a reader: the operation, its arguments, the relationship type its
\* query matches, and the embedding outcome (embedOk, the dimension dim of the
\* model, the vector q handed to the query)
Call(op, user_id, query, threshold, limit, rel, embedOk, dim, q) ==
    [op |-> op, user_id |-> user_id, query |-> query, threshold |-> threshold,
     limit |-> limit, rel |-> rel, embedOk |-> embedOk, dim |-> dim, q |-> q]

\* what the caller gets (docs), with what the query did to produce it: the
\* cosine calls it made and the records that passed its threshold
SearchResult(call, failed, rows, passed, found) ==
    [op |-> call.op, user_id |-> call.user_id, query |-> call.query,
     threshold |-> call.threshold, limit |-> call.limit, rel |-> call.rel,
     embedded |-> call.embedOk,
     dim |-> IF call.embedOk THEN call.dim ELSE 0,
     qlen |-> IF call.embedOk THEN Len(call.q) ELSE 0,
     failed |-> failed, compared |-> Compared(rows), passed |-> passed,
     docs |-> found]

\* run a ranked query: [] when the embedding call or the query raised
RankedSearch(call, rows, agg) ==
    IF ~call.embedOk THEN Respond(SearchResult(call, TRUE, {}, {}, <<>>))
    ELSE IF QueryFails(rows) THEN Respond(SearchResult(call, TRUE, rows, {}, <<>>))
    ELSE LET passed == ScoredDocuments(rows, agg, call.threshold)
         IN  \E found \in OrderedLimited(passed, call.limit) :
                Respond(SearchResult(call, FALSE, rows, passed, found))

\* query_chunks[0] of the retrievers
QueryChunk0(query, dim) == PySlice(QueryEmbed(query, dim), 0, CHUNK_SIZE)

\* MATCH (d:Document)-[:type]->(e) without the (u:User {user_id})-[:OWNS]->
\* pattern: the chunks of every user's Documents
OwnedChunkRows_AnyOwner(user_id, type, q) ==
    UNION {{Row(d, e, q, QueryVector) : e \in ChunksOf(d.id, type)} : d \in docs}

\* MATCH (u:User {user_id: $user_id})-[:OWNS]->(d:Document)-[:type]->(e),
\* each row paired with the query vector q
OwnedChunkRows(user_id, type, q) ==
    UNION {{Row(d, e, q, QueryVector) : e \in ChunksOf(d.id, type)} : d \in OwnedDocs(user_id)}

\* the rows of a recommendation query: every chunk of every other document
\* against every chunk of every source document
RecommendationRows(sources, others, type) ==
    UNION {{Row(o, oe, se.embedding_chunk, se.id) :
              oe \in ChunksOf(o.id, type),
              se \in UNION {ChunksOf(src.id, type) : src \in sources}} :
           o \in others}

\* WHERE size(e.embedding_chunk) = size($query_chunk)
SameSize(rows) == {r \in rows : Len(r.e.embedding_chunk) = Len(r.q)}

----------------------------------------------------------------------------
(* DocumentRetriever *)

DR_search_documents(user_id, query, limit, similarity_threshold, embedOk, dim) ==
    LET q == QueryChunk0(query, dim)
    IN  RankedSearch(Call("DocumentRetriever.search_documents", user_id, query,
                          similarity_threshold, limit, HAS_EMBEDDING, embedOk, dim, q),
                     {r \in OwnedChunkRows(user_id, HAS_EMBEDDING, q) :
                        r.e.chunk_index = 0},
                     "avg")

DR_get_document_recommendations(user_id, doc_id, limit) ==
    LET sources == {d \in OwnedDocs(user_id) : d.id = doc_id}
        others == {d \in OwnedDocs(user_id) : \E src \in sources : d.id # src.id}
    IN  RankedSearch(Call("DocumentRetriever.get_document_recommendations", user_id,
                          NULL, 70, limit, HAS_EMBEDDING, TRUE, 0, <<>>),
                     RecommendationRows(sources, others, HAS_EMBEDDING), "avg")

\* the documents of one doc_type, collect(...)[0..$limit]
TopicResult(call, rows, agg) ==
    IF ~call.embedOk THEN Respond(SearchResult(call, TRUE, {}, {}, <<>>))
    ELSE IF QueryFails(rows) THEN Respond(SearchResult(call, TRUE, rows, {}, <<>>))
    ELSE LET passed == ScoredDocuments(rows, agg, call.threshold)
         IN  \E found \in Collected(passed, call.limit) :
                Respond(SearchResult(call, FALSE, rows, passed, found))

DR_search_by_topic(user_id, topic, limit, embedOk, dim) ==
    LET topic_embedding == QueryEmbed(topic, dim)
        topic_size == Len(topic_embedding)
    IN  TopicResult(Call("DocumentRetriever.search_by_topic", user_id, topic, 70,
                         limit, HAS_EMBEDDING, embedOk, dim, topic_embedding),
                    {r \in OwnedChunkRows(user_id, HAS_EMBEDDING, topic_embedding) :
                       Len(r.e.embedding_chunk) = topic_size},
                    "avg")

\* [c in embeddings | size(c.embedding_chunk)] as a bag: size -> how many
ChunkSizes(E) ==
    [n \in {Len(e.embedding_chunk) : e \in E} |->
        Cardinality({e \in E : Len(e.embedding_chunk) = n})]

\* the per-document details and counters of the two verification queries
EmbeddingDetails(D, type) ==
    {[doc |-> d.id,
      embedding_count |-> Cardinality(ChunksOf(d.id, type)),
      chunk_sizes |-> ChunkSizes(ChunksOf(d.id, type))] : d \in D}

EmbeddingStats(op, user_id, D, type) ==
    LET details == EmbeddingDetails(D, type)
    IN  [op |-> op, user_id |-> user_id, error |-> FALSE,
         total_docs |-> Cardinality(D),
         with_embeddings |-> Cardinality({x \in details : x.embedding_count > 0}),
         without_embeddings |-> Cardinality({x \in details : x.embedding_count = 0}),
         details |-> details]

DR_verify_embeddings(user_id) ==
    Respond(EmbeddingStats("DocumentRetriever.verify_embeddings", user_id,
                           OwnedDocs(user_id), HAS_EMBEDDING))

----------------------------------------------------------------------------
(* EmbeddingVerifier *)

\* verify_document_embeddings(user_id = None): round(avg, 2) raises on the
\* null average of an empty match, and the error dictionary is returned
EV_verify_document_embeddings(user_id) ==
    LET D == IF user_id = NULL THEN docs ELSE OwnedDocs(user_id)
        op == "EmbeddingVerifier.verify_document_embeddings"
    IN  IF D = {}
        THEN Respond([op |-> op, user_id |-> user_id, error |-> TRUE,
                      total_docs |-> 0, with_embeddings |-> 0,
                      without_embeddings |-> 0, details |-> {}])
        ELSE Respond(EmbeddingStats(op, user_id, D, HAS_EMBEDDING))

----------------------------------------------------------------------------
(* VectorIndexSetup.verify_embeddings *)

\* verify_embeddings(user_id = None): the three counters it prints; count and
\* sum over no Document are 0
VS_verify_embeddings(user_id) ==
    LET D == IF user_id = NULL THEN docs ELSE OwnedDocs(user_id)
    IN  Respond(EmbeddingStats("VectorIndexSetup.verify_embeddings", user_id, D,
                               HAS_EMBEDDING))

----------------------------------------------------------------------------
(* ContentRetriever *)

CR_search_content(user_id, query, limit, similarity_threshold, embedOk, dim) ==
    LET q == QueryChunk0(query, dim)
    IN  RankedSearch(Call("ContentRetriever.search_content", user_id, query,
                          similarity_threshold, limit, HAS_CONTENT_EMBEDDING,
                          embedOk, dim, q),
                     SameSize(OwnedChunkRows(user_id, HAS_CONTENT_EMBEDDING, q)),
                     "max")

CR_get_content_recommendations(user_id, doc_id, limit) ==
    LET sources == {d \in OwnedDocs(user_id) : d.origin_source_id = doc_id}
        others == {d \in OwnedDocs(user_id) :
                     \E src \in sources : d.origin_source_id # src.origin_source_id}
    IN  RankedSearch(Call("ContentRetriever.get_content_recommendations", user_id,
                          NULL, 70, limit, HAS_CONTENT_EMBEDDING, TRUE, 0, <<>>),
                     SameSize(RecommendationRows(sources, others, HAS_CONTENT_EMBEDDING)),
                     "max")

CR_search_by_topic(user_id, topic, limit, embedOk, dim) ==
    LET topic_embedding == QueryEmbed(topic, dim)
    IN  TopicResult(Call("ContentRetriever.search_by_topic", user_id, topic, 70,
                         limit, HAS_CONTENT_EMBEDDING, embedOk, dim, topic_embedding),
                    SameSize(OwnedChunkRows(user_id, HAS_CONTENT_EMBEDDING,
                                            topic_embedding)),
                    "max")

\* get_context_for_llm: one record per row above 0.3 (no aggregation); the
\* context holds the records in order until max_context_length is used up
CR_get_context_for_llm(user_id, query, max_docs, embedOk, dim) ==
    LET q == QueryChunk0(query, dim)
        call == Call("ContentRetriever.get_context_for_llm", user_id, query, 30,
                     max_docs, HAS_EMBEDDING, embedOk, dim, q)
        rows == SameSize({r \in OwnedChunkRows(user_id, HAS_EMBEDDING, q) :
                            r.e.chunk_index = 0})
        records == {rec \in {[id |-> r.doc,
                              similarity_score |->
                                 [num |-> Cosine(r.e.embedding_chunk, r.q), den |-> 1]] :
                                r \in rows} :
                      AboveThreshold(rec.similarity_score, 30)}
    IN  IF ~embedOk
        THEN Respond(SearchResult(call, TRUE, {}, {}, <<>>))
        ELSE \E found \in OrderedLimited(records, max_docs) :
                \E n \in 0..Len(found) :
                   Respond(SearchResult(call, FALSE, rows, records, SubSeq(found, 1, n)))

----------------------------------------------------------------------------
(* DocumentGraphStore.search_similar_documents *)

GS_search_similar_documents(user_id, query_text, limit, embedOk, dim) ==
    LET query_embedding == QueryEmbed(query_text, dim)
    IN  RankedSearch(Call("DocumentGraphStore.search_similar_documents", user_id,
                          query_text, 70, limit, HAS_EMBEDDING, embedOk, dim,
                          query_embedding),
                     OwnedChunkRows(user_id, HAS_EMBEDDING, query_embedding),
                     "avg")

----------------------------------------------------------------------------
(* The specification of the document pipeline *)

Init ==
    /\ embedding = <<>>
    /\ chunked = <<>>
    /\ writer = "none"
    /\ InitGraphIdle
    /\ InitServices

\* the caller takes the return value; the next operation can start
Return ==
    /\ result # NoResult
    /\ result' = NoResult
    /\ UNCHANGED <<users, companies, worksFor, docs, chunks, rels, embRels, nextId,
                   encoderVars, serviceVars>>

Idle == result = NoResult

\* The calls a client makes, one at a time, with every input of the bounded sets

RegisterUser ==
    Idle /\ \E reg \in Registrations : CreateOrUpdateUser(reg)

StoreDocuments ==
    /\ Idle
    /\ \E user_id \in UserIds, driveOk \in BOOLEAN :
          \E embedOks, txOks \in [1..Len(Drive(user_id)) -> BOOLEAN] :
             StoreUserDocuments(user_id, driveOk, embedOks, txOks)
    /\ UNCHANGED driverVars

EmbedContent ==
    Idle /\ \E user_id \in UserIds, f \in Files, doc_type \in {"document", "pdf"},
               ok \in BOOLEAN :
               CreateContentEmbedding(user_id, f.id, doc_type,
                                      IF ok THEN f.summary ELSE "")

Writers == RegisterUser \/ StoreDocuments \/ EmbedContent

DeleteUserDocuments ==
    /\ Idle
    /\ \E user_id \in UserIds, answer \in {"yes", "no"},
          onDeletedRead \in {"error", "null"} :
          DeleteDocuments(user_id, answer, onDeletedRead)
    /\ UNCHANGED driverVars

DeleteEveryDocument ==
    /\ Idle
    /\ \E answer \in {"yes", "no"}, onDeletedRead \in {"error", "null"} :
          DeleteAllDocuments(answer, onDeletedRead)
    /\ UNCHANGED driverVars

Deleters == DeleteUserDocuments \/ DeleteEveryDocument

SearchDocuments ==
    Idle /\ \E user_id \in UserIds, query \in QueryTexts, limit \in Limits,
               threshold \in Thresholds, embedOk \in BOOLEAN, dim \in QueryDims :
               DR_search_documents(user_id, query, limit, threshold, embedOk, dim)

SearchContent ==
    Idle /\ \E user_id \in UserIds, query \in QueryTexts, limit \in Limits,
               threshold \in Thresholds, embedOk \in BOOLEAN, dim \in QueryDims :
               CR_search_content(user_id, query, limit, threshold, embedOk, dim)

RecommendDocuments ==
    Idle /\ \E user_id \in UserIds, d \in docs, limit \in Limits :
               DR_get_document_recommendations(user_id, d.id, limit)

RecommendContent ==
    Idle /\ \E user_id \in UserIds, d \in docs, limit \in Limits :
               CR_get_content_recommendations(user_id, d.origin_source_id, limit)

SearchDocumentsByTopic ==
    Idle /\ \E user_id \in UserIds, topic \in QueryTexts, limit \in Limits,
               embedOk \in BOOLEAN, dim \in QueryDims :
               DR_search_by_topic(user_id, topic, limit, embedOk, dim)

SearchContentByTopic ==
    Idle /\ \E user_id \in UserIds, topic \in QueryTexts, limit \in Limits,
               embedOk \in BOOLEAN, dim \in QueryDims :
               CR_search_by_topic(user_id, topic, limit, embedOk, dim)

ContextForLlm ==
    Idle /\ \E user_id \in UserIds, query \in QueryTexts, max_docs \in Limits,
               embedOk \in BOOLEAN, dim \in QueryDims :
               CR_get_context_for_llm(user_id, query, max_docs, embedOk, dim)

SearchSimilarDocuments ==
    Idle /\ \E user_id \in UserIds, query \in QueryTexts, limit \in Limits,
               embedOk \in BOOLEAN, dim \in QueryDims :
               GS_search_similar_documents(user_id, query, limit, embedOk, dim)

Searches ==
    \/ SearchDocuments
    \/ SearchContent
    \/ RecommendDocuments
    \/ RecommendContent
    \/ SearchDocumentsByTopic
    \/ SearchContentByTopic
    \/ ContextForLlm
    \/ SearchSimilarDocuments

VerifyUserEmbeddings ==
    Idle /\ \E user_id \in UserIds : DR_verify_embeddings(user_id)

VerifyDocumentEmbeddings ==
    Idle /\ \E user_id \in UserIds \cup {NULL} : EV_verify_document_embeddings(user_id)

VerifyCoverage ==
    Idle /\ \E user_id \in UserIds \cup {NULL} : VS_verify_embeddings(user_id)

Verifiers == VerifyUserEmbeddings \/ VerifyDocumentEmbeddings \/ VerifyCoverage

\* the writers, the deletions and the verification queries
Next == Writers \/ Deleters \/ Verifiers \/ Return

Spec == Init /\ [][Next]_vars

\* the writers with the similarity queries
NextSearch == Writers \/ Searches \/ Return

SpecSearch == Init /\ [][NextSearch]_vars

----------------------------------------------------------------------------
(* The readers over a graph whose chunks they can see *)

EmptyGraph ==
    [users |-> <<>>, docs |-> {}, rels |-> {}, chunks |-> {}, embRels |-> {},
     nextId |-> 0]

\* the summary chunks attached by HAS_EMBEDDING, the relationship the queries
\* of DocumentRetriever, search_similar_documents and get_context_for_llm match
AsReadersMatch(g) ==
    [g EXCEPT !.embRels = {[r EXCEPT !.type = HAS_EMBEDDING] : r \in g.embRels}]

\* the graphs the readers are run on: u1's drive stored, u2's drive stored or
\* not, each embedding call having returned or not
StoredGraphs ==
    {AsReadersMatch(
        StoreLoop(StoreLoop(EmptyGraph, "u1", Drive("u1"), ok1, <<TRUE, TRUE>>).graph,
                  "u2", files2, ok2, <<TRUE>>).graph) :
        ok1 \in [1..2 -> BOOLEAN], ok2 \in [1..1 -> BOOLEAN],
        files2 \in {<<>>, Drive("u2")}}

InitQuery ==
    /\ embedding = <<>>
    /\ chunked = <<>>
    /\ writer = "none"
    /\ \E g \in StoredGraphs :
          /\ users = g.users
          /\ docs = g.docs
          /\ rels = g.rels
          /\ chunks = g.chunks
          /\ embRels = g.embRels
          /\ nextId = g.nextId
    /\ companies = {}
    /\ worksFor = {}
    /\ result = NoResult
    /\ InitServices

\* the content writer and the similarity queries
NextQuery == RegisterUser \/ EmbedContent \/ Searches \/ Return

SpecQuery == InitQuery /\ [][NextQuery]_vars

----------------------------------------------------------------------------
(* DocumentGraphStore.get_user_documents *)

\* the null an OPTIONAL MATCH binds when nothing matches
NoRel == RelN("none", NoUser, -1, 0)
NoDoc == -1
NoChunkRel == [type |-> "none", from |-> NoDoc, to |-> ChunkUuid(NoDoc, "none", 0, 0)]

\* OPTIONAL MATCH (x)-[:type]->(d): one row per relationship
AuthorEdges(d, type) ==
    LET E == {r \in rels : r.type = type /\ r.to = d.id}
    IN  IF E = {} THEN {NoRel} ELSE E

\* creator.email, modifier.email (null for the null row)
EdgeEmail(e) == IF e = NoRel THEN NULL ELSE users[e.from].email

\* the records of one Document, one per pair of a CREATED and a LAST_MODIFIED
\* relationship
RECURSIVE RowsOf(_, _)
RowsOf(d, pairs) ==
    IF pairs = {} THEN <<>>
    ELSE LET p == CHOOSE x \in pairs : TRUE
         IN  <<[id |-> d.id,
                origin_source_id |-> d.origin_source_id,
                modified_time |-> d.modified_time,
                creator_email |-> EdgeEmail(p[1]),
                modifier_email |-> EdgeEmail(p[2])]>> \o RowsOf(d, pairs \ {p})

DocRows(d) == RowsOf(d, AuthorEdges(d, CREATED) \X AuthorEdges(d, LAST_MODIFIED))

\* ORDER BY d.modified_time DESC: the orders the server may return the
\* Documents in (the records of one Document kept together)
DocOrders(D) ==
    {q \in [1..Cardinality(D) -> D] :
        \A i, j \in 1..Cardinality(D) :
           i < j => q[i] # q[j] /\ q[i].modified_time >= q[j].modified_time}

RECURSIVE ConcatRows(_)
ConcatRows(q) == IF q = <<>> THEN <<>> ELSE DocRows(Head(q)) \o ConcatRows(Tail(q))

\* the lists get_user_documents(user_id) may return: [] when the query raised
UserDocumentLists(user_id, dbOk) ==
    IF dbOk THEN {ConcatRows(q) : q \in DocOrders(OwnedDocs(user_id))} ELSE {<<>>}

\* get_user_documents(user_id)
GS_get_user_documents(user_id, dbOk) ==
    \E documents \in UserDocumentLists(user_id, dbOk) :
       Respond([op |-> "get_user_documents", user_id |-> user_id,
                failed |-> ~dbOk, documents |-> documents])

----------------------------------------------------------------------------
(* UserCleaner.delete_user, UserStore.delete_user, UserCleaner.delete_all_users *)

\* user_data of create_or_update_user for two users of one company
Accounts ==
    {[user_id |-> "u1", email |-> "e1", company |-> "acme"],
     [user_id |-> "u2", email |-> "e2", company |-> "acme"]}

EmbeddingTypes == {HAS_EMBEDDING, HAS_CONTENT_EMBEDDING, HAS_SUMMARY_EMBEDDING}

\* (d)-[r:HAS_EMBEDDING|HAS_CONTENT_EMBEDDING|HAS_SUMMARY_EMBEDDING]->(e)
ChunkRels(doc_id) == {x \in embRels : x.from = doc_id /\ x.type \in EmbeddingTypes}

\* (u)-[:OWNS]->(d:Document), by node
OwnedBy(k) == {d.id : d \in {x \in docs : \E r \in rels :
                                r.type = OWNS /\ r.from = k /\ r.to = x.id}}

\* (u)-[:WORKS_FOR]->(c:Company)
EmployersOf(k) == {w.company : w \in {x \in worksFor : x.user = k}}

\* what a user deletion found before it deleted, and how it ended
UserDeletion(op, user_id, K, confirmed, status) ==
    [op |-> op, user_id |-> user_id, existed |-> K # {}, confirmed |-> confirmed,
     status |-> status,
     owned |-> UNION {OwnedBy(k) : k \in K},
     ownedChunks |-> {x.to : x \in UNION {ChunkRels(d) : d \in UNION {OwnedBy(k) : k \in K}}},
     employers |-> UNION {EmployersOf(k) : k \in K}]

\* a user deletion that changes nothing
DeleteNoUser(r) ==
    /\ result' = r
    /\ UNCHANGED <<users, companies, worksFor, docs, chunks, rels, embRels, nextId,
                   encoderVars, serviceVars>>

\* the rows of delete_query of UserCleaner.delete_user for user node k: the
\* MATCH and its three OPTIONAL MATCHes
UC_DeleteRows(k) ==
    LET DR == IF OwnedBy(k) = {} THEN {<<NoDoc, NoChunkRel>>}
              ELSE UNION {IF ChunkRels(d) = {} THEN {<<d, NoChunkRel>>}
                          ELSE {<<d, x>> : x \in ChunkRels(d)} : d \in OwnedBy(k)}
        WC == IF EmployersOf(k) = {} THEN {NULL} ELSE EmployersOf(k)
    IN  {[u |-> k, d |-> p[1], r |-> p[2], c |-> c] : p \in DR, c \in WC}

\* the stages of delete_query: each WITH ... WHERE keeps the rows that pass,
\* and the clauses after it run on those rows only
UC_DeleteStages(K) ==
    LET rows0 == UNION {UC_DeleteRows(k) : k \in K}
        rows1 == {row \in rows0 : row.r # NoChunkRel}
        rows2 == {row \in rows1 : row.d # NoDoc}
        rows3 == {row \in rows2 : row.c # NULL}
        delWorks == {[user |-> row.u, company |-> row.c] : row \in rows3}
        worksAfter == worksFor \ delWorks
        rows4 == {row \in rows3 : ~\E w \in worksAfter : w.company = row.c}
    IN  [delEmb |-> {row.r : row \in rows1},
         delChunks |-> {row.r.to : row \in rows1},
         delDocs |-> {row.d : row \in rows2},
         delWorks |-> delWorks,
         delCompanies |-> {row.c : row \in rows4},
         delUsers |-> {row.u : row \in rows4}]

\* Neo4j refuses to commit when a deleted node still has a relationship
UC_CommitBlocked(st) ==
    \/ \E r \in rels : r.to \in st.delDocs \/ r.from \in st.delUsers
    \/ \E x \in embRels \ st.delEmb : x.from \in st.delDocs \/ x.to \in st.delChunks
    \/ \E w \in worksFor \ st.delWorks :
          w.user \in st.delUsers \/ w.company \in st.delCompanies

\* UserCleaner.delete_user(user_id, confirm); answer is what the operator typed
UC_delete_user(user_id, answer) ==
    LET op == "UserCleaner.delete_user"
        K == MatchUsers(users, "user_id", user_id)
        st == UC_DeleteStages(K)
    IN  IF K = {} THEN DeleteNoUser(UserDeletion(op, user_id, K, FALSE, "error"))
        ELSE IF answer # "yes"
        THEN DeleteNoUser(UserDeletion(op, user_id, K, FALSE, "cancelled"))
        ELSE IF UC_CommitBlocked(st)
        THEN DeleteNoUser(UserDeletion(op, user_id, K, TRUE, "error"))
        ELSE /\ chunks' = {e \in chunks : e.id \notin st.delChunks}
             /\ embRels' = embRels \ st.delEmb
             /\ docs' = {d \in docs : d.id \notin st.delDocs}
             /\ worksFor' = worksFor \ st.delWorks
             /\ companies' = companies \ st.delCompanies
             /\ users' = [k \in (DOMAIN users) \ st.delUsers |-> users[k]]
             /\ integrations' = DropUserNodes(integrations, st.delUsers)
             /\ connected' = DropUserNodes(connected, st.delUsers)
             /\ result' = UserDeletion(op, user_id, K, TRUE,
                                       IF K \subseteq st.delUsers THEN "success"
                                       ELSE "error")
             /\ UNCHANGED <<rels, nextId, encoderVars, indexVars, updates,
                            driverVars, chat>>

\* CASE WHEN NOT EXISTS((c)<-[:WORKS_FOR]-(:User)) THEN c ELSE null END, on
\* the graph as it is before DETACH DELETE
CompanyToDelete(c) == IF ~\E w \in worksFor : w.company = c THEN c ELSE NULL

\* UserStore.delete_user(user_id)
US_delete_user(user_id) ==
    LET op == "UserStore.delete_user"
        K == MatchUsers(users, "user_id", user_id)
        rows == UNION {{[u |-> k, c |-> c, d |-> d] :
                          c \in IF EmployersOf(k) = {} THEN {NULL} ELSE EmployersOf(k),
                          d \in IF OwnedBy(k) = {} THEN {NoDoc} ELSE OwnedBy(k)} :
                       k \in K}
        delDocs == {row.d : row \in rows} \ {NoDoc}
        delCompanies == {CompanyToDelete(row.c) : row \in rows} \ {NULL}
        worksAfter == {w \in worksFor : w.user \notin K}
    IN  IF K = {} THEN DeleteNoUser(UserDeletion(op, user_id, K, FALSE, "error"))
        ELSE IF \E w \in worksAfter : w.company \in delCompanies
        THEN DeleteNoUser(UserDeletion(op, user_id, K, TRUE, "error"))
        ELSE /\ users' = [k \in (DOMAIN users) \ K |-> users[k]]
             /\ docs' = {d \in docs : d.id \notin delDocs}
             /\ rels' = {r \in rels : r.from \notin K /\ r.to \notin delDocs}
             /\ embRels' = {x \in embRels : x.from \notin delDocs}
             /\ worksFor' = worksAfter
             /\ companies' = companies \ delCompanies
             /\ integrations' = DropUserNodes(integrations, K)
             /\ connected' = DropUserNodes(connected, K)
             /\ result' = UserDeletion(op, user_id, K, TRUE, "success")
             /\ UNCHANGED <<chunks, nextId, encoderVars, indexVars, updates,
                            driverVars, chat>>

\* UserCleaner.delete_all_users(confirm): five chained clauses, each running
\* once per row the clause before it left
UC_delete_all_users(answer) ==
    LET op == "UserCleaner.delete_all_users"
        K == DOMAIN users
        sA == chunks # {}
        sB == sA /\ docs # {}
        sC == sB /\ worksFor # {}
        sD == sC /\ companies # {}
    IN  IF K = {} THEN DeleteNoUser(UserDeletion(op, NULL, K, FALSE, "info"))
        ELSE IF answer # "yes"
        THEN DeleteNoUser(UserDeletion(op, NULL, K, FALSE, "cancelled"))
        ELSE /\ chunks' = IF sA THEN {} ELSE chunks
             /\ embRels' = IF sA THEN {x \in embRels : x.to \notin {e.id : e \in chunks}}
                           ELSE embRels
             /\ docs' = IF sB THEN {} ELSE docs
             /\ rels' = IF sB THEN {r \in rels : r.to \notin {d.id : d \in docs}}
                        ELSE rels
             /\ worksFor' = IF sC THEN {} ELSE worksFor
             /\ companies' = IF sD THEN {} ELSE companies
             /\ users' = IF sD THEN <<>> ELSE users
             /\ integrations' = IF sD THEN <<>> ELSE integrations
             /\ connected' = IF sD THEN <<>> ELSE connected
             /\ result' = UserDeletion(op, NULL, K, TRUE,
                                       IF sD THEN "success" ELSE "error")
             /\ UNCHANGED <<nextId, encoderVars, indexVars, updates, driverVars, chat>>

RegisterAccount ==
    Idle /\ \E reg \in Accounts : CreateOrUpdateUser(reg)

GetUserDocuments ==
    Idle /\ \E user_id \in UserIds, dbOk \in BOOLEAN : GS_get_user_documents(user_id, dbOk)

CleanerDeletesUser ==
    Idle /\ \E user_id \in UserIds, answer \in {"yes", "no"} :
               UC_delete_user(user_id, answer)

StoreDeletesUser ==
    Idle /\ \E user_id \in UserIds : US_delete_user(user_id)

CleanerDeletesAllUsers ==
    Idle /\ \E answer \in {"yes", "no"} : UC_delete_all_users(answer)

\* the users, their documents, the listing and the user deletions
NextUsers ==
    \/ RegisterAccount
    \/ StoreDocuments
    \/ GetUserDocuments
    \/ CleanerDeletesUser
    \/ StoreDeletesUser
    \/ CleanerDeletesAllUsers
    \/ Return

SpecUsers == Init /\ [][NextUsers]_vars

----------------------------------------------------------------------------
(* UserStore.update_integration_status, get_google_credentials and the       *)
(* routes of google_auth_routes                                              *)

GOOGLE_DRIVE == "google_drive"

\* the access tokens Google hands out
Tokens == {"tok1", "tok2"}

\* datetime.now().isoformat(); the instants are not told apart
NOW == "now"

\* the scopes list _update_google_integration stores
SCOPES == "scopes"

\* dict.update: the keys of data replace or extend those of d
DictUpdate(d, data) ==
    [k \in DOMAIN d \cup DOMAIN data |-> IF k \in DOMAIN data THEN data[k] ELSE d[k]]

\* MATCH (u:User {user_id: $user_id}) finds a node
UserExists(user_id) == MatchUsers(users, "user_id", user_id) # {}

\* json.loads(current_result['u.integrations'] or '{}')
StoredIntegrations(user_id) ==
    IF user_id \in DOMAIN integrations THEN integrations[user_id] ELSE EmptyDict

\* status_data of the callers of update_integration_status
StatusData(call, tok) ==
    CASE call = "callback" ->
            ("enabled" :> "true") @@ ("last_connected" :> NOW) @@ ("token" :> tok)
      [] call = "disconnect" ->
            ("enabled" :> "false") @@ ("token" :> NULL) @@ ("last_disconnected" :> NOW)
      [] call = "file_count" ->
            ("file_count" :> "n") @@ ("last_scanned" :> NOW)
      [] call = "refresh" -> ("token" :> tok)

\* current_integrations after current_integrations[provider].update(status_data)
MergedIntegrations(current, provider, status_data) ==
    SetKey(current, provider,
           DictUpdate(IF provider \in DOMAIN current THEN current[provider]
                      ELSE EmptyDict,
                      status_data))

\* what get_google_credentials builds from the stored property before any
\* refresh: NULL where it returns None (no node, no property, no google_drive
\* entry, a KeyError on 'token' or 'scopes', a token of None)
GoogleCredentials(user_id) ==
    IF ~UserExists(user_id) \/ user_id \notin DOMAIN integrations THEN NULL
    ELSE IF GOOGLE_DRIVE \notin DOMAIN integrations[user_id] THEN NULL
    ELSE LET entry == integrations[user_id][GOOGLE_DRIVE]
         IN  IF "token" \notin DOMAIN entry \/ "scopes" \notin DOMAIN entry THEN NULL
             ELSE entry["token"]

\* credentials.expired and credentials.refresh(Request()): not expired,
\* expired and refreshed, expired and the refresh raised
Refreshes == {"fresh", "refreshed", "failed"}

\* the last callback or disconnect stored for the user since it was created
ConnectedAs(user_id) ==
    IF user_id \in DOMAIN connected THEN connected[user_id] ELSE "never"

\* a call that is about to run update_integration_status for each status_data
\* of todo; after is what the status endpoint found stored when it read
PendingCall(op, user_id, todo, after) ==
    [pc |-> "read", op |-> op, user_id |-> user_id, todo |-> todo,
     applied |-> EmptyDict, after |-> after]

\* a new call starts once the finished ones have returned
MayCall(c) ==
    /\ Idle
    /\ updates[c].pc = "idle"
    /\ \A o \in Clients : updates[o].pc # "done"

\* the answer of GET /status/{user_id}
StatusAnswer(user_id, status, refresh, after) ==
    [op |-> "get_integration_status", user_id |-> user_id, status |-> status,
     refresh |-> refresh, after |-> after]

\* update_integration_status, first query: read u.integrations
UpdateRead(c) ==
    /\ Idle
    /\ updates[c].pc = "read"
    /\ updates' = [updates EXCEPT ![c] =
          IF UserExists(updates[c].user_id)
          THEN [updates[c] EXCEPT !.pc = "write"] @@
               [current |-> StoredIntegrations(updates[c].user_id)]
          ELSE [updates[c] EXCEPT !.pc = "done"] @@ [stored |-> FALSE]]
    /\ result' = IF ~UserExists(updates[c].user_id) /\ updates[c].op = "status"
                 THEN StatusAnswer(updates[c].user_id, "disconnected", "refreshed",
                                   updates[c].after)
                 ELSE result
    /\ UNCHANGED <<nodeVars, encoderVars, indexVars, integrations, connected,
                   driverVars, chat>>

\* update_integration_status, second query: SET u.integrations to the merge
\* of what was read with status_data
UpdateWrite(c) ==
    LET call == updates[c]
        data == Head(call.todo)
        ok == UserExists(call.user_id)
        last == Len(call.todo) = 1
    IN  /\ Idle
        /\ call.pc = "write"
        /\ integrations' =
              IF ok THEN SetKey(integrations, call.user_id,
                                MergedIntegrations(call.current, GOOGLE_DRIVE, data))
              ELSE integrations
        /\ connected' =
              IF ok /\ call.op \in {"callback", "disconnect"}
              THEN SetKey(connected, call.user_id, call.op)
              ELSE connected
        /\ updates' = [updates EXCEPT ![c] =
              [pc |-> IF last \/ ~ok THEN "done" ELSE "read",
               op |-> call.op, user_id |-> call.user_id, todo |-> Tail(call.todo),
               applied |-> DictUpdate(call.applied, data), after |-> call.after] @@
              (IF last \/ ~ok THEN [stored |-> ok] ELSE <<>>)]
        /\ result' = IF call.op = "status" /\ last
                     THEN StatusAnswer(call.user_id, "connected", "refreshed", call.after)
                     ELSE result
        /\ UNCHANGED <<nodeVars, encoderVars, indexVars, driverVars, chat>>

\* the caller has its return value
UpdateReturn(c) ==
    /\ updates[c].pc = "done"
    /\ updates' = [updates EXCEPT ![c] = NoCall]
    /\ UNCHANGED <<result, nodeVars, encoderVars, indexVars, integrations, connected,
                   driverVars, chat>>

\* oauth2_callback(code, state) once fetch_token returned tok, and
\* disconnect_integration(user_id): one update_integration_status each
AuthUpdate(c, op, user_id, tok) ==
    /\ MayCall(c)
    /\ updates' = [updates EXCEPT ![c] =
          PendingCall(op, user_id, <<StatusData(op, tok)>>, "unread")]
    /\ UNCHANGED <<result, nodeVars, encoderVars, indexVars, integrations, connected,
                   driverVars, chat>>

\* get_integration_status(user_id): get_google_credentials, whose refreshed
\* token is stored by update_integration_status
API_get_integration_status(c, user_id, refresh, tok) ==
    LET creds == GoogleCredentials(user_id)
        after == ConnectedAs(user_id)
    IN  /\ MayCall(c)
        /\ IF creds = NULL
           THEN /\ result' = StatusAnswer(user_id, "disconnected", "fresh", after)
                /\ UNCHANGED updates
           ELSE IF refresh = "refreshed"
           THEN /\ updates' = [updates EXCEPT ![c] =
                      PendingCall("status", user_id, <<StatusData("refresh", tok)>>,
                                  after)]
                /\ UNCHANGED result
           ELSE /\ result' = StatusAnswer(user_id,
                                          IF refresh = "fresh" THEN "connected"
                                          ELSE "disconnected",
                                          refresh, after)
                /\ UNCHANGED updates
        /\ UNCHANGED <<nodeVars, encoderVars, indexVars, integrations, connected,
                       driverVars, chat>>

\* DriveStats.get_file_count(user_id) up to its update_integration_status:
\* without credentials it returns its error dictionary and updates nothing
DS_get_file_count(c, user_id, refresh, tok) ==
    LET creds == GoogleCredentials(user_id)
        fc == StatusData("file_count", NULL)
    IN  /\ MayCall(c)
        /\ IF creds = NULL \/ refresh = "failed"
           THEN /\ result' = [op |-> "get_file_count", user_id |-> user_id,
                              error |-> TRUE]
                /\ UNCHANGED updates
           ELSE /\ updates' = [updates EXCEPT ![c] =
                      PendingCall("file_count", user_id,
                                  IF refresh = "refreshed"
                                  THEN <<StatusData("refresh", tok), fc>>
                                  ELSE <<fc>>,
                                  "unread")]
                /\ UNCHANGED result
        /\ UNCHANGED <<nodeVars, encoderVars, indexVars, integrations, connected,
                       driverVars, chat>>

\* setup_google_integration(user_id, client_secrets_file): the transaction of
\* _update_google_integration, which replaces the google_drive entry
US_setup_google_integration(user_id, tok) ==
    /\ result' = [op |-> "setup_google_integration", user_id |-> user_id,
                  error |-> ~UserExists(user_id)]
    /\ integrations' =
          IF UserExists(user_id)
          THEN SetKey(integrations, user_id,
                      SetKey(StoredIntegrations(user_id), GOOGLE_DRIVE,
                             ("enabled" :> "true") @@ ("last_connected" :> NOW) @@
                             ("token" :> tok) @@ ("scopes" :> SCOPES)))
          ELSE integrations
    /\ connected' = IF UserExists(user_id) THEN SetKey(connected, user_id, "setup")
                    ELSE connected
    /\ UNCHANGED <<nodeVars, encoderVars, indexVars, updates, driverVars, chat>>

\* the accounts that sign in with Google
AuthUsers == {"u1"}

\* the API process serves the routes; the DriveStats script runs beside it
ApiClient == "c1"
ScriptClient == "c2"

CreateAccount ==
    Idle /\ \E reg \in Accounts : reg.user_id \in AuthUsers /\ CreateOrUpdateUser(reg)

SetupGoogleIntegration ==
    Idle /\ \E user_id \in AuthUsers, tok \in Tokens :
               US_setup_google_integration(user_id, tok)

OAuthCallback ==
    \E user_id \in AuthUsers, tok \in Tokens :
       AuthUpdate(ApiClient, "callback", user_id, tok)

DisconnectIntegration ==
    \E user_id \in AuthUsers : AuthUpdate(ApiClient, "disconnect", user_id, NULL)

GetIntegrationStatus ==
    Idle /\ \E user_id \in AuthUsers, refresh \in Refreshes, tok \in Tokens :
               API_get_integration_status(ApiClient, user_id, refresh, tok)

GetFileCount ==
    Idle /\ \E user_id \in AuthUsers, refresh \in Refreshes, tok \in Tokens :
               DS_get_file_count(ScriptClient, user_id, refresh, tok)

UpdateReads == \E c \in Clients : UpdateRead(c)

UpdateWrites == \E c \in Clients : UpdateWrite(c)

UpdateReturns == \E c \in Clients : UpdateReturn(c)

\* the API process and the DriveStats script, each a client of the database,
\* their queries interleaving
NextAuth ==
    \/ CreateAccount
    \/ SetupGoogleIntegration
    \/ OAuthCallback
    \/ DisconnectIntegration
    \/ GetIntegrationStatus
    \/ GetFileCount
    \/ UpdateReads
    \/ UpdateWrites
    \/ UpdateReturns
    \/ Return

SpecAuth == Init /\ [][NextAuth]_vars

----------------------------------------------------------------------------
(* The Neo4j drivers of test_document_flow.main, DriveStats and              *)
(* DocumentCleaner                                                           *)

\* what a closed driver does with session(): the driver at hand raises, or
\* it opens a new connection
Reuses == {"raises", "reconnects"}

\* close() was called on the driver of object obj
IsClosed(obj) == obj \in DOMAIN drivers /\ drivers[obj] = "closed"

\* the driver works for obj: it is open, or it reconnects
DriverServes(obj, reuse) == ~IsClosed(obj) \/ reuse = "reconnects"

\* closedUse after obj ran the operations ops on its driver
UsedDriver(obj, ops) == IF IsClosed(obj) THEN closedUse \cup ops ELSE closedUse

\* DriveStats.get_file_count(user_id) on the summarizer's DriveStats: whether
\* it returns statistics (credentials read, Drive listed, file count stored)
FileCountReturns(user_id, driveOk, reuse) ==
    /\ DriverServes("drive_stats", reuse)
    /\ GoogleCredentials(user_id) # NULL
    /\ driveOk

\* get_file_count: get_google_credentials, update_integration_status, and
\* self.user_store.close() in its finally clause
DS_file_count_effect(user_id, driveOk, reuse) ==
    LET ok == FileCountReturns(user_id, driveOk, reuse)
    IN  /\ closedUse' = UsedDriver("drive_stats",
                           {"get_google_credentials"} \cup
                           (IF ok THEN {"update_integration_status"} ELSE {}))
        /\ integrations' =
              IF ok THEN SetKey(integrations, user_id,
                                MergedIntegrations(StoredIntegrations(user_id),
                                                   GOOGLE_DRIVE,
                                                   StatusData("file_count", NULL)))
              ELSE integrations
        /\ drivers' = SetKey(drivers, "drive_stats", "closed")

\* main up to DriveDocumentSummarizer(...): UserStore(), DocumentGraphStore(),
\* get_google_credentials; without credentials it returns, closing both
FlowStart(user_id) ==
    /\ flow.pc \in {"none", "closed"}
    /\ IF GoogleCredentials(user_id) = NULL
       THEN /\ flow' = [pc |-> "closed"]
            /\ drivers' = SetKey(SetKey(drivers, "user_store", "closed"),
                                 "doc_store", "closed")
       ELSE /\ flow' = [pc |-> "summarizer", user_id |-> user_id]
            /\ drivers' = SetKey(SetKey(SetKey(drivers, "user_store", "open"),
                                        "doc_store", "open"),
                                 "drive_stats", "open")
    /\ UNCHANGED <<closedUse, result, nodeVars, encoderVars, indexVars, authVars, chat>>

\* stats = summarizer.check_drive_stats(test_user_id)
FlowCheckStats(driveOk, reuse) ==
    /\ flow.pc = "summarizer"
    /\ DS_file_count_effect(flow.user_id, driveOk, reuse)
    /\ flow' = [flow EXCEPT !.pc = "stats"]
    /\ UNCHANGED <<result, nodeVars, encoderVars, indexVars, updates, connected, chat>>

\* store_user_documents, first half: summarizer.summarize_all_files(user_id),
\* whose list_files calls check_drive_stats again; without statistics
\* list_files raises and summarize_all_files returns {}
FlowSummarize(driveOk, reuse) ==
    /\ flow.pc = "stats"
    /\ DS_file_count_effect(flow.user_id, driveOk, reuse)
    /\ flow' = [pc |-> "summarized", user_id |-> flow.user_id,
                read |-> (GoogleCredentials(flow.user_id) # NULL =>
                             DriverServes("drive_stats", reuse)),
                summaries |-> FileCountReturns(flow.user_id, driveOk, reuse)]
    /\ UNCHANGED <<result, nodeVars, encoderVars, indexVars, updates, connected, chat>>

\* store_user_documents, second half: one _create_document_node per summary
FlowStoreWrite(embedOks, txOks) ==
    /\ flow.pc = "summarized"
    /\ StoreUserDocuments(flow.user_id, flow.summaries, embedOks, txOks)
    /\ flow' = [pc |-> IF result'.ret THEN "stored" ELSE "failed",
                user_id |-> flow.user_id, read |-> flow.read,
                summaries |-> flow.summaries,
                stored |-> {d.id : d \in result'.created}]
    /\ UNCHANGED <<drivers, closedUse>>

\* documents = doc_store.get_user_documents(test_user_id)
FlowList(dbOk) ==
    /\ flow.pc = "stored"
    /\ \E documents \in UserDocumentLists(flow.user_id, dbOk) :
          /\ result' = [op |-> "get_user_documents", user_id |-> flow.user_id,
                        failed |-> ~dbOk, documents |-> documents]
          /\ flow' = [pc |-> "listed", user_id |-> flow.user_id, read |-> flow.read,
                      summaries |-> flow.summaries, stored |-> flow.stored,
                      listFailed |-> ~dbOk,
                      listed |-> {documents[i].id : i \in 1..Len(documents)}]
    /\ UNCHANGED <<drivers, closedUse, nodeVars, encoderVars, indexVars, authVars, chat>>

\* finally: user_store.close(), doc_store.close()
FlowClose ==
    /\ flow.pc \in {"listed", "failed"}
    /\ flow' = [pc |-> "closed"]
    /\ drivers' = SetKey(SetKey(drivers, "user_store", "closed"), "doc_store", "closed")
    /\ UNCHANGED <<closedUse, result, nodeVars, encoderVars, indexVars, authVars, chat>>

\* cleaner = DocumentCleaner()
NewCleaner ==
    /\ "cleaner" \notin DOMAIN drivers
    /\ drivers' = SetKey(drivers, "cleaner", "open")
    /\ UNCHANGED <<closedUse, flow, result, nodeVars, encoderVars, indexVars, authVars,
                   chat>>

\* cleaner.delete_documents(user_id, confirm), whose finally clause closes the
\* driver of the cleaner
DC_delete_documents(user_id, answer, onDeletedRead, reuse) ==
    /\ "cleaner" \in DOMAIN drivers
    /\ IF DriverServes("cleaner", reuse)
       THEN DeleteDocuments(user_id, answer, onDeletedRead)
       ELSE DeleteNothing("delete_documents", user_id, "error")
    /\ closedUse' = UsedDriver("cleaner", {"delete_documents"})
    /\ drivers' = SetKey(drivers, "cleaner", "closed")
    /\ UNCHANGED flow

RunFlow == \E user_id \in AuthUsers : FlowStart(user_id)

CheckDriveStats == \E driveOk \in BOOLEAN, reuse \in Reuses : FlowCheckStats(driveOk, reuse)

SummarizeAllFiles == \E driveOk \in BOOLEAN, reuse \in Reuses : FlowSummarize(driveOk, reuse)

StoreSummaries ==
    /\ flow.pc = "summarized"
    /\ \E embedOks, txOks \in [1..Len(Drive(flow.user_id)) -> BOOLEAN] :
          FlowStoreWrite(embedOks, txOks)

ListStored == \E dbOk \in BOOLEAN : FlowList(dbOk)

CleanerDeletes ==
    Idle /\ \E user_id \in AuthUsers, answer \in {"yes", "no"},
               onDeletedRead \in {"error", "null"}, reuse \in Reuses :
               DC_delete_documents(user_id, answer, onDeletedRead, reuse)

\* an account with Google credentials, runs of the document flow, and a
\* DocumentCleaner used more than once
NextFlow ==
    \/ CreateAccount
    \/ SetupGoogleIntegration
    \/ RunFlow
    \/ CheckDriveStats
    \/ SummarizeAllFiles
    \/ StoreSummaries
    \/ ListStored
    \/ FlowClose
    \/ NewCleaner
    \/ CleanerDeletes
    \/ Return

SpecFlow == Init /\ [][NextFlow]_vars

----------------------------------------------------------------------------
(* testagent: the group chat and state_transition *)

MAX_ROUND == 10

initializer == "init"
query_generator == "Query_Generator"
data_collector == "Retrieve_Action_1"
data_analyst == "Research_Action_1"

\* state_transition returns None
NoSpeaker == "None"

\* generate_reply returns None
NoReply == <<"None">>

\* The content of a message, as the sequence of its pieces: "fence markdown"
\* is three backquotes and the word markdown, "fence" is three backquotes.
\* The marker state_transition looks for is the one directly followed by the
\* other.
MARKER == <<"fence markdown", "fence">>

\* what an agent may reply: nothing but a tool call (content None, stored as
\* ""), a fenced markdown table, text ending with the marker, TERMINATE
Replies ==
    {<<>>,
     <<"fence markdown", "table", "fence">>,
     <<"text", "fence markdown", "fence">>,
     <<"TERMINATE">>}

\* sub in content, for Python strings
Contains(content, sub) ==
    \E i \in 0..(Len(content) - Len(sub)) : SubSeq(content, i + 1, i + Len(sub)) = sub

\* a test for the opening fence alone
HasMarker_OpeningFence(content) == Contains(content, <<"fence markdown">>)

\* the marker in messages[-1].get("content", "")
HasMarker(content) == Contains(content, MARKER)

\* state_transition(last_speaker, group_chat)
state_transition(last_speaker, messages) ==
    IF last_speaker = initializer THEN query_generator
    ELSE IF last_speaker = query_generator THEN data_collector
    ELSE IF last_speaker = data_collector
    THEN IF HasMarker(messages[Len(messages)].content) THEN data_analyst
         ELSE data_collector
    ELSE NoSpeaker

\* initializer.a_initiate_chat(manager, message=...)
InitiateChat ==
    /\ chat.status = "none"
    /\ chat' = [status |-> "running", messages |-> <<>>, i |-> 0,
                message |-> [name |-> initializer, content |-> <<"text">>]]
    /\ UNCHANGED <<graphVars, encoderVars, indexVars, authVars, driverVars>>

\* the chat is over
ChatEnds(messages, i, why) ==
    chat' = [status |-> "ended", messages |-> messages, i |-> i, why |-> why]

\* One iteration of the loop of GroupChatManager.run_chat: append the message,
\* stop on a termination message or in the last round, select the next
\* speaker and take its reply. checksTermination is whether the autogen at
\* hand tests the message in the loop.
RunChatRound(reply, checksTermination) ==
    LET messages == Append(chat.messages, chat.message)
        speaker == state_transition(chat.message.name, messages)
    IN  /\ chat.status = "running"
        /\ chat.i < MAX_ROUND
        /\ IF checksTermination /\ chat.message.content = <<"TERMINATE">>
           THEN ChatEnds(messages, chat.i, "terminated")
           ELSE IF chat.i = MAX_ROUND - 1
           THEN ChatEnds(messages, chat.i, "max_round")
           ELSE IF speaker = NoSpeaker
           THEN ChatEnds(messages, chat.i, "no speaker")
           ELSE IF reply = NoReply
           THEN ChatEnds(messages, chat.i, "no reply")
           ELSE chat' = [status |-> "running", messages |-> messages, i |-> chat.i + 1,
                         message |-> [name |-> speaker, content |-> reply]]
        /\ UNCHANGED <<graphVars, encoderVars, indexVars, authVars, driverVars>>

RunChat ==
    \E reply \in Replies \cup {NoReply}, checksTermination \in BOOLEAN :
       RunChatRound(reply, checksTermination)

NextChat == InitiateChat \/ RunChat

SpecChat == Init /\ [][NextChat]_vars

----------------------------------------------------------------------------
(* VectorIndexSetup.setup_vector_index and EmbeddingVerifier.check_vector_index *)

INDEX_NAME == "document_embeddings"

\* the index the CREATE VECTOR INDEX statement of setup_vector_index declares
ExpectedIndex ==
    [name |-> INDEX_NAME, type |-> "VECTOR", label |-> "DocumentEmbedding",
     property |-> "embedding_chunk", dimensions |-> 500, similarity |-> "cosine"]

\* indexes of that name a database may hold when the set-up runs: another
\* dimensionality, another similarity function, another index type
OtherIndexes ==
    {[ExpectedIndex EXCEPT !.dimensions = EMBED_DIM],
     [ExpectedIndex EXCEPT !.similarity = "euclidean"],
     [ExpectedIndex EXCEPT !.type = "RANGE", !.dimensions = 0, !.similarity = NULL]}

\* SHOW INDEXES YIELD name, type WHERE name = 'document_embeddings'
NamedIndexes(ixs) == {i \in ixs : i.name = INDEX_NAME}

\* RETURN count(*) as count
IndexCount(ixs) == Cardinality(NamedIndexes(ixs))

\* an index of the same name, or of the same type on the same label and
\* property, is in the way of a CREATE
IndexConflict(ixs) ==
    \E i \in ixs : \/ i.name = ExpectedIndex.name
                    \/ /\ i.type = ExpectedIndex.type
                       /\ i.label = ExpectedIndex.label
                       /\ i.property = ExpectedIndex.property

\* CREATE VECTOR INDEX document_embeddings without IF NOT EXISTS: the
\* statement fails when an index is in the way
CreateVectorIndex_Plain(ixs) ==
    IF IndexConflict(ixs) THEN [indexes |-> ixs, error |-> "exists"]
    ELSE [indexes |-> ixs \cup {ExpectedIndex}, error |-> "none"]

\* CREATE VECTOR INDEX document_embeddings IF NOT EXISTS ... OPTIONS {...}
CreateVectorIndex(ixs) ==
    IF IndexConflict(ixs) THEN [indexes |-> ixs, error |-> "none"]
    ELSE [indexes |-> ixs \cup {ExpectedIndex}, error |-> "none"]

\* a set-up call that ended: what the check query counted, the return value,
\* and the exception caught, if one was
SetupDone(count, ret, error) ==
    [pc |-> "done", count |-> count, ret |-> ret, error |-> error]

\* setup_vector_index, first query: the check. dbOk is whether the server
\* answered (an exception is logged and False returned)
SetupCheck(c) ==
    /\ setups[c].pc = "idle"
    /\ \E dbOk \in BOOLEAN :
          setups' = [setups EXCEPT ![c] =
                       IF ~dbOk THEN SetupDone(0, FALSE, "unavailable")
                       ELSE IF IndexCount(indexes) > 0
                       THEN SetupDone(IndexCount(indexes), TRUE, "none")
                       ELSE [pc |-> "create", count |-> 0]]
    /\ UNCHANGED <<indexes, graphVars, encoderVars, authVars, driverVars, chat>>

\* setup_vector_index, second query: the creation
SetupCreate(c) ==
    /\ setups[c].pc = "create"
    /\ \E dbOk \in BOOLEAN :
          LET created == CreateVectorIndex(indexes)
          IN  IF ~dbOk
              THEN /\ setups' = [setups EXCEPT ![c] = SetupDone(0, FALSE, "unavailable")]
                   /\ UNCHANGED indexes
              ELSE /\ indexes' = created.indexes
                   /\ setups' = [setups EXCEPT ![c] =
                                    SetupDone(0, created.error = "none", created.error)]
    /\ UNCHANGED <<graphVars, encoderVars, authVars, driverVars, chat>>

\* the caller has the return value of setup_vector_index
SetupReturn(c) ==
    /\ setups[c].pc = "done"
    /\ setups' = [setups EXCEPT ![c] = NoCall]
    /\ UNCHANGED <<indexes, graphVars, encoderVars, authVars, driverVars, chat>>

\* check_vector_index(): the index information, or the error dictionary
\* when no index has the name
EV_check_vector_index ==
    IF NamedIndexes(indexes) = {}
    THEN Respond([op |-> "check_vector_index", error |-> TRUE, index |-> NULL])
    ELSE \E i \in NamedIndexes(indexes) :
            Respond([op |-> "check_vector_index", error |-> FALSE, index |-> i])

SetupChecks == \E c \in Clients : SetupCheck(c)
SetupCreates == \E c \in Clients : SetupCreate(c)
SetupReturns == \E c \in Clients : SetupReturn(c)
CheckVectorIndex == Idle /\ EV_check_vector_index

InitEncoderIdle ==
    /\ embedding = <<>>
    /\ chunked = <<>>
    /\ writer = "none"

\* the database before the set-up: without the index, with it, or with an
\* index of its name and another configuration
InitIndex ==
    /\ InitEncoderIdle
    /\ InitGraphIdle
    /\ indexes \in {{}, {ExpectedIndex}} \cup {{i} : i \in OtherIndexes}
    /\ setups = [c \in Clients |-> NoCall]
    /\ InitAuthIdle
    /\ InitDriversIdle
    /\ InitChatIdle

NextIndex == SetupChecks \/ SetupCreates \/ SetupReturns \/ CheckVectorIndex \/ Return

SpecIndex == InitIndex /\ [][NextIndex]_vars

----------------------------------------------------------------------------
(* C1 *)

RECURSIVE ConcatChunks(_)
ConcatChunks(cs) ==
    IF cs = <<>> THEN <<>>
    ELSE cs[1].embedding_chunk \o ConcatChunks(Tail(cs))

CeilDiv(n, d) == IF n % d = 0 THEN n \div d ELSE (n \div d) + 1

\* C1: for every vector of length L >= 1 the chunks of either writer, in
\* chunk_index order, concatenate to the vector; there are ceil(L/500) of
\* them; all but the last have 500 elements and the last has L mod 500
\* (500 when 500 divides L).
C1_ChunksReassemble ==
    (writer # "none" /\ Len(embedding) >= 1) =>
        LET L == Len(embedding)
            n == Len(chunked)
        IN  /\ ConcatChunks(chunked) = embedding
            /\ n = CeilDiv(L, CHUNK_SIZE)
            /\ \A k \in 1..n : chunked[k].chunk_index = k - 1
            /\ \A k \in 1..(n - 1) : Len(chunked[k].embedding_chunk) = CHUNK_SIZE
            /\ Len(chunked[n].embedding_chunk) =
                  (IF L % CHUNK_SIZE = 0 THEN CHUNK_SIZE ELSE L % CHUNK_SIZE)

C1_Witness ==
    /\ writer = "_store_content_embedding"
    /\ Len(embedding) = EMBED_DIM
    /\ [k \in 1..Len(chunked) |-> Len(chunked[k].embedding_chunk)] = <<500, 500, 500, 36>>

----------------------------------------------------------------------------
(* C2, C3 *)

\* C2: after a chunk write for a Document, the chunks attached to the
\* Document are exactly the chunks that write created; nothing an earlier
\* write created is still attached.
C2_SecondWriteReplaces ==
    (result.op = "create_content_embedding" /\ result.ret) =>
        \A s \in result.sets :
           {e.id : e \in ChunksOf(s.doc, HAS_CONTENT_EMBEDDING)} = s.new

\* C3: after a completed chunk write the Document holds either the chunk set
\* it had before the write or the chunk set the write created, never chunks
\* of both.
C3_OldOrNewNeverMixed ==
    (result.op = "create_content_embedding" /\ result.ret) =>
        \A s \in result.sets :
           LET now == {e.id : e \in ChunksOf(s.doc, HAS_CONTENT_EMBEDDING)}
           IN  now = s.old \/ now = s.new

----------------------------------------------------------------------------
(* C4 *)

\* C4: two Document nodes of one user with the same origin_source_id are the
\* same node: storing a drive file again creates no second Document.
C4_StoreIsIdempotent ==
    \A d1, d2 \in docs :
       (/\ d1.origin_source_id = d2.origin_source_id
        /\ \E k \in DOMAIN users : /\ Rel(OWNS, k, d1.id) \in rels
                                   /\ Rel(OWNS, k, d2.id) \in rels)
       => d1.id = d2.id

----------------------------------------------------------------------------
(* C5 *)

\* the DocumentEmbedding nodes the writers have attached to a Document
WrittenChunks(doc_id) ==
    {e \in chunks : \E r \in embRels : r.from = doc_id /\ r.to = e.id}

VerifyOps ==
    {"DocumentRetriever.verify_embeddings",
     "EmbeddingVerifier.verify_document_embeddings"}

\* C5: the verification queries report, for every Document they list, the
\* number of chunks the writers attached to it and the lengths of those chunks.
C5_VerifyReportsWrittenChunks ==
    (result.op \in VerifyOps /\ ~result.error) =>
        \A x \in result.details :
           /\ x.embedding_count = Cardinality(WrittenChunks(x.doc))
           /\ x.chunk_sizes = ChunkSizes(WrittenChunks(x.doc))

----------------------------------------------------------------------------
(* C6, C7 *)

\* the similarity, in hundredths, of a Document's stored summary embedding
\* and the embedding of the query text
SummaryScore(d, query) == TextSimilarity(TextCode(d.summary), TextCode(query))

ReturnedIds == {result.docs[i].id : i \in 1..Len(result.docs)}

\* C6: a search that ran returns exactly the user's Documents with stored
\* summary chunks whose score against the query is above the threshold, when
\* they are at most `limit` (and `limit` of them otherwise): of two Documents
\* scoring 0.92 and 0.45, with threshold 0.7 and limit 5, the 0.92 Document.
C6_SearchReturnsDocsAboveThreshold ==
    (/\ result.op \in {"DocumentRetriever.search_documents",
                       "DocumentGraphStore.search_similar_documents"}
     /\ ~result.failed) =>
        LET stored == {d \in OwnedDocs(result.user_id) :
                         ChunksOf(d.id, HAS_SUMMARY_EMBEDDING) # {}}
            expected == {d.id : d \in {x \in stored :
                                         SummaryScore(x, result.query) > result.threshold}}
        IN  IF Cardinality(expected) <= result.limit
            THEN ReturnedIds = expected
            ELSE ReturnedIds \subseteq expected /\ Len(result.docs) = result.limit

SearchOps ==
    {"DocumentRetriever.search_documents",
     "DocumentRetriever.get_document_recommendations",
     "DocumentRetriever.search_by_topic",
     "ContentRetriever.search_content",
     "ContentRetriever.get_content_recommendations",
     "ContentRetriever.search_by_topic",
     "ContentRetriever.get_context_for_llm",
     "DocumentGraphStore.search_similar_documents"}

\* C7: every record a search operation returns carries a score strictly
\* above the threshold in force for that operation.
C7_NoResultAtOrBelowThreshold ==
    result.op \in SearchOps =>
        \A i \in 1..Len(result.docs) :
           LET score == result.docs[i].similarity_score
           IN  ~(score.num <= result.threshold * score.den)

\* a content search that returned one of the user's Documents and left out
\* another that has content chunks
C7_Witness ==
    /\ result.op = "ContentRetriever.search_content"
    /\ result.threshold = 70
    /\ Len(result.docs) = 1
    /\ \E d \in OwnedDocs(result.user_id) :
          /\ ChunksOf(d.id, HAS_CONTENT_EMBEDDING) # {}
          /\ d.id \notin ReturnedIds

----------------------------------------------------------------------------
(* C8, C9, C10 *)

DeleteOps == {"delete_documents", "delete_all_documents"}

\* C8: in every reachable state, whatever deletions have run, every
\* DocumentEmbedding node has exactly one parent Document, and it is the
\* Document the node was written for.
C8_ChunksHaveOneParent ==
    \A e \in chunks :
       /\ Cardinality({d \in docs : \E r \in embRels : r.from = d.id /\ r.to = e.id}) = 1
       /\ \E d \in docs : d.id = e.id.doc

\* a Document has been deleted, a later Document has chunks, and a deletion
\* has just been attempted on it
C8_Witness ==
    /\ result.op = "delete_all_documents"
    /\ result.status = "error"
    /\ nextId > Cardinality(docs)
    /\ chunks # {}

\* C9: after a deletion that succeeded, every placeholder User that was the
\* creator or the modifier of a deleted Document and is still in the graph
\* has a CREATED or LAST_MODIFIED edge left.
C9_OrphanedPlaceholdersRemoved ==
    (result.op \in DeleteOps /\ result.status = "success") =>
        \A row \in result.rows : \A k \in {row[1], row[2]} :
           (k \in DOMAIN users /\ users[k].user_id = NULL) =>
              \E r \in rels : r.from = k /\ r.type \in AuthorTypes

\* C10: a User node that disappears had no user_id, owned no Document, and
\* has no CREATED or LAST_MODIFIED edge in the graph that remains.
C10_DeletionSparesRealUsers ==
    [][\A k \in (DOMAIN users) \ (DOMAIN users') :
          /\ users[k].user_id = NULL
          /\ ~\E r \in rels : r.from = k /\ r.type = OWNS
          /\ ~\E r \in rels' : r.from = k /\ r.type \in AuthorTypes]_vars

\* a deletion removed a placeholder author and kept an author with a user_id
C10_Witness ==
    /\ result.op \in DeleteOps
    /\ result.status = "success"
    /\ result.deletedUsers # {}
    /\ \E row \in result.rows : \E k \in {row[1], row[2]} :
          k \in DOMAIN users /\ users[k].user_id # NULL

----------------------------------------------------------------------------
(* C11, C12, C13, C14 *)

TextSearchOps ==
    {"DocumentRetriever.search_documents",
     "DocumentRetriever.search_by_topic",
     "ContentRetriever.search_content",
     "ContentRetriever.search_by_topic",
     "DocumentGraphStore.search_similar_documents"}

StoredChunkLengths == {Len(e.embedding_chunk) : e \in chunks}

\* C11: a search whose query vector has a length that no stored chunk has
\* returns the empty list to its caller (the operation returns; no error
\* leaves it).
C11_LengthMismatchReturnsEmpty ==
    (/\ result.op \in TextSearchOps
     /\ result.embedded
     /\ result.qlen \notin StoredChunkLengths) =>
        result.docs = <<>>

\* search_documents ran with a 300-element query chunk over Documents whose
\* first chunks have 500 elements, and returned []
C11_Witness ==
    /\ result.op = "DocumentRetriever.search_documents"
    /\ result.embedded
    /\ result.qlen = 300
    /\ 300 \notin StoredChunkLengths
    /\ result.compared # {}
    /\ result.docs = <<>>

C13_QueryIsChunkedAtWriteSize ==
    (result.op \in SearchOps /\ result.query # NULL /\ result.embedded) =>
        LET query_chunks == PyChunks(Vec(result.dim), CHUNK_SIZE)
        IN  \E k \in 1..Len(query_chunks) :
               result.qlen = Len(query_chunks[k].embedding_chunk)

RetrieverOps ==
    {"DocumentRetriever.search_documents",
     "DocumentRetriever.get_document_recommendations",
     "DocumentRetriever.search_by_topic",
     "ContentRetriever.search_content",
     "ContentRetriever.get_content_recommendations",
     "ContentRetriever.search_by_topic",
     "ContentRetriever.get_context_for_llm"}

----------------------------------------------------------------------------
(* C15, C16, C17 *)

ReturnedRecords == {result.docs[i] : i \in 1..Len(result.docs)}

ModifiedTime(id) == (CHOOSE d \in docs : d.id = id).modified_time

SameScore(s, t) == ScoreLeq(s, t) /\ ScoreLeq(t, s)

\* C16: among the Documents of equal score a search returns the more
\* recently modified first, and a Document left out by the limit is not more
\* recently modified than a returned one of the same score.
C16_TiesByModificationTime ==
    result.op \in {"DocumentRetriever.search_documents",
                   "ContentRetriever.search_content"} =>
        /\ \A i, j \in 1..Len(result.docs) :
              (i < j /\ SameScore(result.docs[i].similarity_score,
                                  result.docs[j].similarity_score))
              => ModifiedTime(result.docs[i].id) >= ModifiedTime(result.docs[j].id)
        /\ \A x \in result.passed \ ReturnedRecords :
              \A i \in 1..Len(result.docs) :
                 SameScore(x.similarity_score, result.docs[i].similarity_score)
                 => ModifiedTime(x.id) <= ModifiedTime(result.docs[i].id)

UserScopedOps ==
    {"DocumentRetriever.search_documents",
     "DocumentRetriever.get_document_recommendations",
     "DocumentRetriever.search_by_topic",
     "ContentRetriever.search_content",
     "ContentRetriever.get_content_recommendations",
     "ContentRetriever.search_by_topic",
     "ContentRetriever.get_context_for_llm"}

OwnedIds(user_id) == {d.id : d \in OwnedDocs(user_id)}

\* the chunks attached to the Documents the user owns
OwnedChunkIds(user_id) ==
    {r.to : r \in {x \in embRels : x.from \in OwnedIds(user_id)}}

----------------------------------------------------------------------------
(* C18 *)

\* C18: after a batch run of store_user_documents, every file of the batch
\* whose own transaction did not fail has its Document stored, whatever
\* happened to the other files of the batch.
C18_BatchFailureIsIsolated ==
    result.op = "store_user_documents" =>
        \A i \in 1..Len(result.files) :
           result.txOks[i] =>
              \E d \in result.created : d.origin_source_id = result.files[i].id

----------------------------------------------------------------------------
(* C19, C20 *)

\* C19: a chunk write for an embedding vector of length 0 does not complete:
\* it fails with an InvalidVectorError and creates no chunk.
C19_EmptyVectorRejected ==
    Len(embedding) = 0 => writer = "none"

\* C20: the chunks attached to one Document by one relationship type have
\* pairwise distinct chunk_index values that are exactly 0..n-1, n being
\* their number, and all declare total_chunks = n.
C20_ChunkIndexesForm0ToN ==
    \A d \in docs : \A type \in {HAS_SUMMARY_EMBEDDING, HAS_CONTENT_EMBEDDING} :
       LET E == ChunksOf(d.id, type)
           n == Cardinality(E)
       IN  /\ \A e1, e2 \in E : e1.chunk_index = e2.chunk_index => e1 = e2
           /\ {e.chunk_index : e \in E} = 0..(n - 1)
           /\ \A e \in E : e.total_chunks = n

----------------------------------------------------------------------------
(* C21 *)

CoverageOps ==
    {"EmbeddingVerifier.verify_document_embeddings",
     "VectorIndexSetup.verify_embeddings"}

\* C21: the coverage statistics satisfy total = with + without, and
\* with_embeddings is the number of Documents in scope (the user's, or all)
\* that have at least one chunk a writer stored, whichever writer it was.
C21_CoverageCountsStoredChunks ==
    (result.op \in CoverageOps /\ ~result.error) =>
        LET D == IF result.user_id = NULL THEN docs ELSE OwnedDocs(result.user_id)
        IN  /\ result.total_docs = result.with_embeddings + result.without_embeddings
            /\ result.with_embeddings =
                  Cardinality({d \in D : WrittenChunks(d.id) # {}})

----------------------------------------------------------------------------
(* C22, C23 *)

\* an index of the expected name with another configuration exists
MismatchedIndex == \E i \in NamedIndexes(indexes) : i # ExpectedIndex

\* C22: when an index named document_embeddings exists with a configuration
\* other than the expected one (500 dimensions, cosine), a call of
\* setup_vector_index does not return success.
C22_MismatchIsFatal ==
    \A c \in Clients :
       (setups[c].pc = "done" /\ MismatchedIndex) => ~setups[c].ret

\* C23: in a database without a mismatched index, whatever calls of
\* setup_vector_index have run or are running, at most one index has the
\* name; once a call has returned (the server having answered) it returned
\* success and the index is the expected one; and no step changes the
\* indexes once the expected index exists.
C23_SetupIsIdempotent ==
    /\ [](~MismatchedIndex =>
            /\ IndexCount(indexes) <= 1
            /\ \A c \in Clients :
                  (setups[c].pc = "done" /\ setups[c].error # "unavailable") =>
                     /\ setups[c].ret
                     /\ NamedIndexes(indexes) = {ExpectedIndex})
    /\ [][(ExpectedIndex \in indexes) => (indexes' = indexes)]_vars

\* two interleaved calls both found no index, both ran the creation and
\* returned success, and there is one index
C23_Witness ==
    /\ \A c \in Clients :
          setups[c].pc = "done" /\ setups[c].count = 0 /\ setups[c].ret
    /\ indexes = {ExpectedIndex}

----------------------------------------------------------------------------
(* C24 *)

\* C24: get_user_documents(user_id) returns every Document the user owns
\* exactly once, with the email of its creator and of its last modifier, in
\* descending order of modified_time, and no Document the user does not own.
C24_ListsOwnedDocumentsOnce ==
    (result.op = "get_user_documents" /\ ~result.failed) =>
        LET rows == result.documents
        IN  /\ \A d \in OwnedDocs(result.user_id) :
                  /\ Cardinality({i \in 1..Len(rows) : rows[i].id = d.id}) = 1
                  /\ \A i \in 1..Len(rows) : rows[i].id = d.id =>
                        /\ rows[i].creator_email = d.owner_email
                        /\ rows[i].modifier_email = d.last_modifier_email
            /\ \A i \in 1..Len(rows) : rows[i].id \in OwnedIds(result.user_id)
            /\ \A i, j \in 1..Len(rows) :
                  i < j => rows[i].modified_time >= rows[j].modified_time

----------------------------------------------------------------------------
(* C25, C26 *)

\* C25: a confirmed delete_user for an existing user returns 'success', and
\* afterwards the User node, the Documents it owned and their chunks are gone.
C25_DeleteUserRemovesEverything ==
    (/\ result.op \in {"UserCleaner.delete_user", "UserStore.delete_user"}
     /\ result.existed
     /\ result.confirmed) =>
        /\ result.status = "success"
        /\ MatchUsers(users, "user_id", result.user_id) = {}
        /\ \A d \in docs : d.id \notin result.owned
        /\ \A e \in chunks : e.id \notin result.ownedChunks

\* C26: after a user deletion that succeeded, a Company the deleted user
\* worked for is in the graph exactly when a User still works for it.
C26_CompanyDeletedWithLastUser ==
    (/\ result.op \in {"UserCleaner.delete_user", "UserStore.delete_user",
                       "UserCleaner.delete_all_users"}
     /\ result.status = "success") =>
        \A c \in result.employers :
           c \in companies <=> \E w \in worksFor : w.company = c

----------------------------------------------------------------------------
(* C27, C28 *)

\* C27: when the status endpoint answers for a user whose last stored
\* callback or disconnect was a callback, it reports 'connected'; when it was
\* a disconnect, it reports 'disconnected' (a refresh that fails aside).
C27_StatusFollowsCallbackAndDisconnect ==
    (result.op = "get_integration_status" /\ result.refresh # "failed") =>
        /\ result.after = "callback" => result.status = "connected"
        /\ result.after = "disconnect" => result.status = "disconnected"

\* C28: once two overlapping update_integration_status calls for the same
\* user that set different keys have both completed, the stored integrations
\* hold the values of both.
C28_NoLostUpdate ==
    \A c1, c2 \in Clients :
       (/\ c1 # c2
        /\ updates[c1].pc = "done" /\ updates[c1].stored
        /\ updates[c2].pc = "done" /\ updates[c2].stored
        /\ updates[c1].user_id = updates[c2].user_id
        /\ DOMAIN updates[c1].applied \cap DOMAIN updates[c2].applied = {}) =>
           LET stored == StoredIntegrations(updates[c1].user_id)
           IN  /\ GOOGLE_DRIVE \in DOMAIN stored
               /\ \A c \in {c1, c2} : \A k \in DOMAIN updates[c].applied :
                     /\ k \in DOMAIN stored[GOOGLE_DRIVE]
                     /\ stored[GOOGLE_DRIVE][k] = updates[c].applied[k]

----------------------------------------------------------------------------
(* C29 *)

\* C29: no operation runs on a driver after its close(); in the document
\* flow store_user_documents reads the stored credentials, and the Documents
\* it stored are among those get_user_documents returns.
C29_NoUseAfterClose ==
    /\ closedUse = {}
    /\ flow.pc \in {"summarized", "stored", "failed", "listed"} => flow.read
    /\ (flow.pc = "listed" /\ ~flow.listFailed) => flow.stored \subseteq flow.listed

----------------------------------------------------------------------------
(* C30 *)

\* the messages of the chat so far, the one about to be appended included
Spoken ==
    IF chat.status = "none" THEN <<>>
    ELSE IF chat.status = "running" THEN Append(chat.messages, chat.message)
    ELSE chat.messages

\* C30: the speakers are init, Query_Generator, Retrieve_Action_1;
\* Retrieve_Action_1 speaks again after each of its messages without the
\* marker, Research_Action_1 speaks after the one with the marker and is the
\* last speaker; the chat holds at most max_round = 10 messages and is over
\* when it holds 10.
C30_SpeakersFollowStateTransition ==
    LET m == Spoken
    IN  /\ Len(m) >= 1 => m[1].name = initializer
        /\ Len(m) >= 2 => m[2].name = query_generator
        /\ Len(m) >= 3 => m[3].name = data_collector
        /\ \A k \in 3..(Len(m) - 1) :
              /\ m[k].name = data_collector
              /\ m[k + 1].name = IF Contains(m[k].content, MARKER) THEN data_analyst
                                 ELSE data_collector
        /\ Len(m) <= MAX_ROUND
        /\ (chat.status = "running" => Len(chat.messages) < MAX_ROUND)
        /\ (chat.status = "ended" /\ chat.why = "no speaker") =>
              m[Len(m)].name = data_analyst

\* a chat in which Retrieve_Action_1 spoke twice, the second time with the
\* marker, Research_Action_1 spoke, and no next speaker was selected
C30_Witness ==
    /\ chat.status = "ended"
    /\ chat.why = "no speaker"
    /\ Len(chat.messages) = 5
    /\ chat.messages[3].name = data_collector
    /\ ~Contains(chat.messages[3].content, MARKER)
    /\ chat.messages[4].name = data_collector
    /\ Contains(chat.messages[4].content, MARKER)
    /\ chat.messages[5].name = data_analyst

====
